---- MODULE Spec2Model ----
(***************************************************************************)
(* Model of the metrics collector of src/src/metrics.py: the              *)
(* PerformanceMetrics object (timers, memory samples, per-operation       *)
(* entries, CloudWatch forwarding) and the MetricsContext scope; of the   *)
(* handler of src/src/lambda_function.py; and of the statistics and       *)
(* comparison of trial results in src/tests/test_performance_utilities.py *)
(* and src/scripts/performance_test.py.                                   *)
(*                                                                         *)
(* Python dicts are functions whose DOMAIN is the set of keys present.    *)
(* Floats are integers: perf_counter() is the integer `clock` (seconds),  *)
(* durations are (end - start) * 1000 milliseconds, 0.0 is 0.             *)
(* Every method is an operator from the collector (a record of its three  *)
(* containers) and the environment's answers to the collector after the   *)
(* call, its return value and the exception it raises ("none" if none).   *)
(***************************************************************************)
EXTENDS Integers, Sequences, FiniteSets, TLC

\* ------------------------------------------------------------------ bounds
MaxClock == 1
MaxCalls == 3
MaxScopeCalls == 4
MaxResults == 3
MaxIterations == 2
MaxBatchIterations == 1

\* ------------------------------------------------------------- vocabulary
Ops == {"sort_intensive", "mathematical_computation"}

\* the (data_size, iterations, cold_start) triples callers pass
Shapes ==
  { [data_size |-> 500, iterations |-> 3, cold_start |-> TRUE],
    [data_size |-> 1000, iterations |-> 1, cold_start |-> FALSE] }

EmptyDict == [k \in {} |-> 0]

\* the arguments of direct record_operation_metrics calls: additional_metrics
\* is None, a custom key, or a key the entry has of its own
PlainArgs ==
  [data_size |-> 500, iterations |-> 3, cold_start |-> TRUE,
   additional_metrics |-> EmptyDict]

RecordArgs ==
  { PlainArgs,
    [data_size |-> 1000, iterations |-> 1, cold_start |-> FALSE,
     additional_metrics |-> [custom_metric |-> "test_value"]],
    [data_size |-> 500, iterations |-> 3, cold_start |-> TRUE,
     additional_metrics |-> [execution_time_ms |-> 25]] }

\* record_operation_metrics(..., additional_metrics={"peak_memory_mb": 1.0})
PeakArgs ==
  [data_size |-> 500, iterations |-> 3, cold_start |-> TRUE,
   additional_metrics |-> [peak_memory_mb |-> 1]]

BytesPerMb == 1024 * 1024

\* what psutil answers: a failure, or the process's resident bytes and
\* percent with the system's total, available and percent
Probes ==
  { [ok |-> FALSE, rss |-> 0, percent |-> 0, total |-> 0, available |-> 0,
     system_percent |-> 0] } \cup
  { [ok |-> TRUE, rss |-> m * BytesPerMb, percent |-> 5,
     total |-> 1024 * BytesPerMb, available |-> 512 * BytesPerMb,
     system_percent |-> 50] : m \in {50, 100} }

\* what the telemetry sink does with put_metric_data
SinkOutcomes == {"ok", "ClientError", "Exception"}

\* how the work wrapped by a scope ends
WorkOutcomes == {"return", "RuntimeError"}

\* ---------------------------------------------------------- dict helpers
\* d[k] = v (insert or overwrite)
Put(d, k, v) == [x \in DOMAIN d \cup {k} |-> IF x = k THEN v ELSE d[x]]

\* del d[k]
Del(d, k) == [x \in DOMAIN d \ {k} |-> d[x]]

\* d.update(m)
Update(d, m) == [x \in DOMAIN d \cup DOMAIN m |-> IF x \in DOMAIN m THEN m[x] ELSE d[x]]

\* d.get(k, default)
Get(d, k, default) == IF k \in DOMAIN d THEN d[k] ELSE default

RECURSIVE Max(_)
Max(s) ==
  IF Len(s) = 1 THEN s[1]
  ELSE LET m == Max(Tail(s)) IN IF s[1] >= m THEN s[1] ELSE m

\* ------------------------------------------------------------------ state
VARIABLES
  architecture,     \* self.architecture
  cloudwatch,       \* self.cloudwatch: "client" or "None"
  metrics_data,     \* self.metrics_data: operation -> entry dict
  start_times,      \* self.start_times: operation -> perf_counter at start
  memory_samples,   \* self.memory_samples
  clock,            \* time.perf_counter(), the monotonic clock
  scopes,           \* the open MetricsContext scopes, innermost last
  last,             \* the last call made on the collector and its result
  stops,            \* history: operation -> result of its last completed stop
  tainted,          \* history: operations whose stored time a record replaced
  recorded,         \* history: operations recorded since creation or reset
  ncalls,           \* history: the number of calls made on the collector
  _cold_start,      \* lambda_function._cold_start
  _metrics_collector, \* lambda_function._metrics_collector: "None" or the collector
  test_results,     \* the trial results the benchmark driver has gathered
  test_stats,       \* the statistics last computed from them
  tester            \* the PerformanceTester of scripts/performance_test.py:
                    \* where its call stands and the locals of that call

\* the state outside the collector: the globals of the handler's module and
\* the lists of the benchmark driver and the remote tester
outside ==
  << _cold_start, _metrics_collector, test_results, test_stats, tester >>

vars ==
  << architecture, cloudwatch, metrics_data, start_times, memory_samples,
     clock, scopes, last, stops, tainted, recorded, ncalls, outside >>

self == [ metrics_data |-> metrics_data,
          start_times |-> start_times,
          memory_samples |-> memory_samples ]

\* datetime.now(timezone.utc): the wall clock is not the monotonic clock and
\* nothing relates the two; every record reads the same instant of it
WallClock == "2024-01-01T00:00:00Z"

function_name == "test-function"
function_version == "$LATEST"
runtime == "python3"

\* ------------------------------------------------- PerformanceMetrics
\* start_timer that also opens an empty entry for the operation
start_timer_opens_entry(c, operation, now) ==
  [ self |-> [c EXCEPT !.start_times = Put(@, operation, now),
                       !.metrics_data =
                         Put(@, operation, Get(c.metrics_data, operation, EmptyDict))],
    ret |-> "None", exc |-> "none" ]

\* start_timer(operation): the start instant, overwriting a pending one
start_timer(c, operation, now) ==
  [ self |-> [c EXCEPT !.start_times = Put(@, operation, now)],
    ret |-> "None", exc |-> "none" ]

\* stop_timer without its guard: the lookup of a missing start raises
stop_timer_unguarded(c, operation, now) ==
  IF operation \notin DOMAIN c.start_times
  THEN [self |-> c, ret |-> "None", exc |-> "KeyError"]
  ELSE LET execution_time == (now - c.start_times[operation]) * 1000
           entry == Get(c.metrics_data, operation, EmptyDict)
       IN [ self |-> [c EXCEPT
                        !.metrics_data =
                          Put(@, operation, Put(entry, "execution_time_ms", execution_time)),
                        !.start_times = Del(@, operation)],
            ret |-> execution_time, exc |-> "none" ]

\* stop_timer that leaves the start where it was
stop_timer_keeps_start(c, operation, now) ==
  IF operation \notin DOMAIN c.start_times
  THEN [self |-> c, ret |-> 0, exc |-> "none"]
  ELSE LET execution_time == (now - c.start_times[operation]) * 1000
           entry == Get(c.metrics_data, operation, EmptyDict)
       IN [ self |-> [c EXCEPT
                        !.metrics_data =
                          Put(@, operation, Put(entry, "execution_time_ms", execution_time))],
            ret |-> execution_time, exc |-> "none" ]

\* stop_timer(operation)
stop_timer(c, operation, now) ==
  IF operation \notin DOMAIN c.start_times
  THEN [self |-> c, ret |-> 0, exc |-> "none"]
  ELSE LET end_time == now
           execution_time == (end_time - c.start_times[operation]) * 1000
           entry == Get(c.metrics_data, operation, EmptyDict)
       IN [ self |-> [c EXCEPT
                        !.metrics_data =
                          Put(@, operation, Put(entry, "execution_time_ms", execution_time)),
                        !.start_times = Del(@, operation)],
            ret |-> execution_time, exc |-> "none" ]

ZeroReading ==
  [ memory_used_mb |-> 0, memory_percent |-> 0, system_memory_total_mb |-> 0,
    system_memory_available_mb |-> 0, system_memory_percent |-> 0 ]

\* a capture that takes the 0.0 of a failed reading for a sample
capture_memory_usage_samples_failure(c, probe) ==
  LET memory_data ==
        IF probe.ok
        THEN [ memory_used_mb |-> probe.rss \div BytesPerMb,
               memory_percent |-> probe.percent,
               system_memory_total_mb |-> probe.total \div BytesPerMb,
               system_memory_available_mb |-> probe.available \div BytesPerMb,
               system_memory_percent |-> probe.system_percent ]
        ELSE ZeroReading
  IN [ self |-> [c EXCEPT !.memory_samples = Append(@, memory_data.memory_used_mb)],
       ret |-> memory_data, exc |-> "none" ]

\* capture_memory_usage(): a reading, appended to the samples; all zeros and
\* no sample when the introspection fails
capture_memory_usage(c, probe) ==
  IF probe.ok
  THEN LET memory_data ==
             [ memory_used_mb |-> probe.rss \div BytesPerMb,
               memory_percent |-> probe.percent,
               system_memory_total_mb |-> probe.total \div BytesPerMb,
               system_memory_available_mb |-> probe.available \div BytesPerMb,
               system_memory_percent |-> probe.system_percent ]
       IN [ self |-> [c EXCEPT !.memory_samples = Append(@, memory_data.memory_used_mb)],
            ret |-> memory_data, exc |-> "none" ]
  ELSE [self |-> c, ret |-> ZeroReading, exc |-> "none"]

\* the peak taken to be the latest sample
get_peak_latest_sample(c) ==
  IF c.memory_samples # <<>> THEN c.memory_samples[Len(c.memory_samples)] ELSE 0

\* get_peak_memory_usage()
get_peak_memory_usage(c) ==
  IF c.memory_samples # <<>> THEN Max(c.memory_samples) ELSE 0

\* the stored time read as if no stop had stored one
stored_time_ignored(md, operation) == 0

\* self.metrics_data.get(operation, {}).get("execution_time_ms", 0.0)
stored_time(md, operation) ==
  Get(Get(md, operation, EmptyDict), "execution_time_ms", 0)

\* the store holding the new entry alone
store_entry_alone(md, operation, metrics) == [x \in {operation} |-> metrics]

\* if operation not in self.metrics_data: self.metrics_data[operation] = {}
\* self.metrics_data[operation].update(metrics)
store_entry(md, operation, metrics) ==
  Put(md, operation, Update(Get(md, operation, EmptyDict), metrics))

\* record_operation_metrics(operation, data_size, iterations, cold_start,
\* additional_metrics); every value of the entry is JSON-serialisable, so
\* the json.dumps of the log line does not raise
record_operation_metrics(c, arch, operation, data_size, iterations, cold_start, additional_metrics, probe) ==
  LET timestamp == WallClock
      cap == capture_memory_usage(c, probe)
      c1 == cap.self
      memory_info == cap.ret
      metrics0 ==
        [ architecture |-> arch,
          operation |-> operation,
          execution_time_ms |-> stored_time(c1.metrics_data, operation),
          memory_used_mb |-> memory_info.memory_used_mb,
          peak_memory_mb |-> get_peak_memory_usage(c1),
          memory_percent |-> memory_info.memory_percent,
          cold_start |-> cold_start,
          data_size |-> data_size,
          iterations |-> iterations,
          timestamp |-> timestamp,
          function_name |-> function_name,
          function_version |-> function_version,
          runtime |-> runtime ]
      metrics ==
        IF additional_metrics # EmptyDict
        THEN Update(metrics0, additional_metrics)
        ELSE metrics0
  IN [ self |-> [c1 EXCEPT !.metrics_data = store_entry(@, operation, metrics)],
       ret |-> metrics, exc |-> "none" ]

\* reset_metrics that leaves the pending starts
reset_metrics_keeps_timers(c) ==
  [ self |-> [metrics_data |-> EmptyDict, start_times |-> c.start_times,
              memory_samples |-> <<>>],
    ret |-> "None", exc |-> "none" ]

\* reset_metrics()
reset_metrics(c) ==
  [ self |-> [metrics_data |-> EmptyDict, start_times |-> EmptyDict,
              memory_samples |-> <<>>],
    ret |-> "None", exc |-> "none" ]

Dimensions(arch, operation) ==
  << [Name |-> "Architecture", Value |-> arch],
     [Name |-> "Operation", Value |-> operation],
     [Name |-> "FunctionName", Value |-> function_name] >>

\* the MetricData list send_cloudwatch_metrics builds from an entry
metric_data(arch, operation, metrics) ==
  (IF "execution_time_ms" \in DOMAIN metrics
   THEN << [MetricName |-> "ExecutionTime", Value |-> metrics["execution_time_ms"],
            Unit |-> "Milliseconds", Dimensions |-> Dimensions(arch, operation)] >>
   ELSE << >>) \o
  (IF "memory_used_mb" \in DOMAIN metrics
   THEN << [MetricName |-> "MemoryUsage", Value |-> metrics["memory_used_mb"],
            Unit |-> "Megabytes", Dimensions |-> Dimensions(arch, operation)] >>
   ELSE << >>) \o
  (IF "peak_memory_mb" \in DOMAIN metrics
   THEN << [MetricName |-> "PeakMemoryUsage", Value |-> metrics["peak_memory_mb"],
            Unit |-> "Megabytes", Dimensions |-> Dimensions(arch, operation)] >>
   ELSE << >>) \o
  (IF "cold_start" \in DOMAIN metrics
   THEN << [MetricName |-> "ColdStart",
            Value |-> IF metrics["cold_start"] THEN 1 ELSE 0,
            Unit |-> "Count",
            Dimensions |-> << [Name |-> "Architecture", Value |-> arch],
                              [Name |-> "FunctionName", Value |-> function_name] >>] >>
   ELSE << >>)

\* send_cloudwatch_metrics without its except clauses: what the sink raises
\* reaches the caller
send_cloudwatch_metrics_uncaught(c, arch, cw, operation, sink) ==
  IF cw = "None" \/ operation \notin DOMAIN c.metrics_data
  THEN [self |-> c, ret |-> FALSE, exc |-> "none", sent |-> << >>]
  ELSE [self |-> c, ret |-> (sink = "ok"),
        exc |-> IF sink = "ok" THEN "none" ELSE sink,
        sent |-> metric_data(arch, operation, c.metrics_data[operation])]

\* send_cloudwatch_metrics that drops the entry once it has handed it to
\* put_metric_data
send_cloudwatch_metrics_flushes(c, arch, cw, operation, sink) ==
  IF cw = "None" \/ operation \notin DOMAIN c.metrics_data
  THEN [self |-> c, ret |-> FALSE, exc |-> "none", sent |-> << >>]
  ELSE [self |-> [c EXCEPT !.metrics_data = Del(@, operation)],
        ret |-> (sink = "ok"), exc |-> "none",
        sent |-> metric_data(arch, operation, c.metrics_data[operation])]

\* send_cloudwatch_metrics(operation): `sent` is what put_metric_data was
\* called with (<<>> when it was not called), `sink` what the sink does
send_cloudwatch_metrics(c, arch, cw, operation, sink) ==
  IF cw = "None"
  THEN [self |-> c, ret |-> FALSE, exc |-> "none", sent |-> << >>]
  ELSE IF operation \notin DOMAIN c.metrics_data
  THEN [self |-> c, ret |-> FALSE, exc |-> "none", sent |-> << >>]
  ELSE LET md == metric_data(arch, operation, c.metrics_data[operation])
       IN IF md # << >>
          THEN [self |-> c, ret |-> (sink = "ok"), exc |-> "none", sent |-> md]
          ELSE [self |-> c, ret |-> FALSE, exc |-> "none", sent |-> << >>]

\* ---------------------------------------------------- MetricsContext
\* __enter__
context_enter(c, ctx, now) == start_timer(c, ctx.operation, now)

\* __exit__ that records only when the work returned
context_exit_skips_fault(c, arch, ctx, exc_type, now, probe) ==
  LET stopped == stop_timer(c, ctx.operation, now)
      written ==
        record_operation_metrics(stopped.self, arch, ctx.operation, ctx.data_size,
                                 ctx.iterations, ctx.cold_start, EmptyDict, probe)
  IN IF exc_type # "return"
     THEN [ self |-> stopped.self, ret |-> FALSE, exc |-> stopped.exc,
            calls |-> << "stop_timer" >>, stop |-> stopped.ret ]
     ELSE [ self |-> written.self, ret |-> FALSE, exc |-> written.exc,
            calls |-> << "stop_timer", "record_operation_metrics" >>,
            stop |-> stopped.ret ]

\* __exit__ that returns True, which tells the with statement to drop the fault
context_exit_swallows(c, arch, ctx, exc_type, now, probe) ==
  LET stopped == stop_timer(c, ctx.operation, now)
      written ==
        record_operation_metrics(stopped.self, arch, ctx.operation, ctx.data_size,
                                 ctx.iterations, ctx.cold_start, EmptyDict, probe)
  IN [ self |-> written.self, ret |-> TRUE, exc |-> written.exc,
       calls |-> << "stop_timer", "record_operation_metrics" >>,
       stop |-> stopped.ret ]

\* __exit__: ret is what it returns to the with statement (None is falsy),
\* calls the collector calls it made, in order
context_exit(c, arch, ctx, exc_type, now, probe) ==
  LET stopped == stop_timer(c, ctx.operation, now)
      written ==
        record_operation_metrics(stopped.self, arch, ctx.operation, ctx.data_size,
                                 ctx.iterations, ctx.cold_start, EmptyDict, probe)
  IN IF stopped.exc # "none"
     THEN [ self |-> stopped.self, ret |-> FALSE, exc |-> stopped.exc,
            calls |-> << "stop_timer" >>, stop |-> stopped.ret ]
     ELSE [ self |-> written.self, ret |-> FALSE, exc |-> written.exc,
            calls |-> << "stop_timer", "record_operation_metrics" >>,
            stop |-> stopped.ret ]

\* what the with statement raises to its caller once __exit__ is done
with_raises(exited, exc_type) ==
  IF exited.exc # "none" THEN exited.exc
  ELSE IF exc_type # "return" /\ ~exited.ret THEN exc_type
  ELSE "none"

\* ------------------------------------------------------ lambda_function.py
\* JSON values of the numeric parameters: an integer n, true or false (in
\* Python a bool, which is an int: True == 1, False == 0), or a value that
\* is no integer (a string such as "abc")
JsonInt(n) == [type |-> "int", v |-> n]

JsonBool(b) == [type |-> "bool", v |-> IF b THEN 1 ELSE 0]

NotAnInt == [type |-> "str", v |-> 0]

\* isinstance(x, int): bool is a subclass of int
isinstance_int(x) == x.type \in {"int", "bool"}

SortEvent ==
  [operation |-> "sort_intensive", data_size |-> JsonInt(1000),
   iterations |-> JsonInt(1)]

\* the events the handler is invoked with: direct invocations, and API
\* Gateway events whose body is a JSON object, a JSON document that is no
\* object (an array) or no JSON at all
Events ==
  { SortEvent,
    [operation |-> "mathematical_computation"],
    [iterations |-> JsonInt(1)],
    [operation |-> "invalid_operation"],
    [operation |-> "sort_intensive", data_size |-> JsonInt(100001)],
    [operation |-> "sort_intensive", data_size |-> NotAnInt],
    [operation |-> "sort_intensive", iterations |-> JsonInt(11)],
    [operation |-> "sort_intensive", data_size |-> JsonBool(TRUE)],
    [httpMethod |-> "POST",
     body |-> [json |-> TRUE, mapping |-> TRUE,
               doc |-> [operation |-> "sort_intensive",
                        data_size |-> JsonInt(500)]]],
    [httpMethod |-> "POST",
     body |-> [json |-> TRUE, mapping |-> FALSE, doc |-> EmptyDict]],
    [httpMethod |-> "POST",
     body |-> [json |-> FALSE, mapping |-> FALSE, doc |-> EmptyDict]] }

\* how process_workload ends
HandlerWorkOutcomes == WorkOutcomes \cup {"ValueError"}

\* the invocations: each event with a workload that returns at once, and the
\* sort event with a workload that takes a second or raises, with psutil
\* failing and with the sink failing
Invocations ==
  { [event |-> e, work |-> "return", took |-> 0,
     probe |-> CHOOSE p \in Probes : p.ok /\ p.rss = 50 * BytesPerMb,
     sink |-> "ok"] : e \in Events } \cup
  { [event |-> SortEvent, work |-> "RuntimeError", took |-> 1,
     probe |-> CHOOSE p \in Probes : ~p.ok, sink |-> "ok"],
    [event |-> SortEvent, work |-> "ValueError", took |-> 0,
     probe |-> CHOOSE p \in Probes : p.ok /\ p.rss = 100 * BytesPerMb,
     sink |-> "ok"],
    [event |-> SortEvent, work |-> "return", took |-> 1,
     probe |-> CHOOSE p \in Probes : p.ok /\ p.rss = 100 * BytesPerMb,
     sink |-> "ClientError"] }

valid_operations ==
  << "sort_intensive", "mathematical_computation", "string_processing",
     "memory_intensive" >>

\* parse_api_gateway_event: json.loads of the body, merged over the query
\* parameters; a JSONDecodeError is raised again as a ValueError, and the
\* TypeError of {**query_params, **body} for a body that is no mapping is
\* not caught
parse_api_gateway_event(event) ==
  IF ~event["body"].json
  THEN [ret |-> EmptyDict, exc |-> "ValueError"]
  ELSE IF ~event["body"].mapping
  THEN [ret |-> EmptyDict, exc |-> "TypeError"]
  ELSE [ret |-> Update(Update(Get(event, "queryStringParameters", EmptyDict),
                              event["body"].doc),
                       [_http_method |-> Get(event, "httpMethod", "POST"),
                        _event_type |-> "api_gateway"]),
        exc |-> "none"]

parse_direct_invocation_event(event) ==
  [ret |-> Put(event, "_event_type", "direct_invocation"), exc |-> "none"]

parse_event(event) ==
  IF "httpMethod" \in DOMAIN event /\ "body" \in DOMAIN event
  THEN parse_api_gateway_event(event)
  ELSE parse_direct_invocation_event(event)

\* isinstance(x, int) and lo <= x <= hi fails
OutOfRange(x, lo, hi) == ~isinstance_int(x) \/ x.v < lo \/ x.v > hi

\* validate_operation_parameters: the error message, or "None"
validate_operation_parameters(operation, parsed_event) ==
  IF operation = "sort_intensive"
     /\ OutOfRange(Get(parsed_event, "data_size", JsonInt(10000)), 1, 100000)
  THEN "data_size must be an integer between 1 and 100000"
  ELSE IF operation = "mathematical_computation"
     /\ OutOfRange(Get(parsed_event, "complexity", JsonInt(1000)), 1, 10000)
  THEN "complexity must be an integer between 1 and 10000"
  ELSE IF operation = "string_processing"
     /\ OutOfRange(Get(parsed_event, "text_size", JsonInt(10000)), 1, 100000)
  THEN "text_size must be an integer between 1 and 100000"
  ELSE IF operation = "memory_intensive"
     /\ OutOfRange(Get(parsed_event, "memory_size_mb", JsonInt(10)), 1, 100)
  THEN "memory_size_mb must be an integer between 1 and 100"
  ELSE IF OutOfRange(Get(parsed_event, "iterations", JsonInt(1)), 1, 10)
  THEN "iterations must be an integer between 1 and 10"
  ELSE "None"

validate_input(parsed_event) ==
  IF "operation" \notin DOMAIN parsed_event
  THEN [valid |-> FALSE, error |-> "Missing required parameter: 'operation'"]
  ELSE IF parsed_event["operation"] \notin
            {valid_operations[i] : i \in DOMAIN valid_operations}
  THEN [valid |-> FALSE, error |-> "Invalid operation"]
  ELSE LET validation_error ==
             validate_operation_parameters(parsed_event["operation"], parsed_event)
       IN IF validation_error # "None"
          THEN [valid |-> FALSE, error |-> validation_error]
          ELSE [valid |-> TRUE, error |-> "None"]

get_default_data_size(operation) ==
  IF operation \in {"sort_intensive", "string_processing"} THEN 10000
  ELSE IF operation = "mathematical_computation" THEN 1000
  ELSE IF operation = "memory_intensive" THEN 10
  ELSE 1000

\* the response: body is the document json.dumps writes
create_success_response(data) == [statusCode |-> 200, body |-> data]

create_error_response(status_code, error_message) ==
  [statusCode |-> status_code,
   body |-> [success |-> FALSE, error |-> error_message,
             statusCode |-> status_code]]

\* PerformanceMetrics(architecture, function_name): the containers of a new
\* collector
create_metrics_collector ==
  [metrics_data |-> EmptyDict, start_times |-> EmptyDict, memory_samples |-> << >>]

\* cold start detection that reads the flag and never clears it
detect_cold_start_keeps_flag(flag) ==
  [is_cold_start |-> flag, _cold_start |-> flag]

\* is_cold_start = _cold_start; _cold_start = False
detect_cold_start(flag) ==
  [is_cold_start |-> flag, _cold_start |-> FALSE]

\* lambda_handler(event, context): g is the module's two globals, c the
\* collector they hold, `work` how process_workload ends, `took` the seconds
\* it runs, `steps` the calls the handler made, in order
lambda_handler(g, c, arch, cw, event, work, now, took, probe, sink) ==
  LET c0 == IF g._metrics_collector = "None" THEN create_metrics_collector ELSE c
      cold == detect_cold_start(g._cold_start)
      is_cold_start == cold.is_cold_start
      g1 == [_cold_start |-> cold._cold_start,
             _metrics_collector |-> "PerformanceMetrics"]
      parsed == parse_event(event)
      parsed_event == parsed.ret
      validation_result == validate_input(parsed_event)
      operation == parsed_event["operation"]
      data_size ==
        Get(parsed_event, "data_size", JsonInt(get_default_data_size(operation))).v
      iterations == Get(parsed_event, "iterations", JsonInt(1)).v
      ctx == [operation |-> operation, data_size |-> data_size,
              iterations |-> iterations, cold_start |-> is_cold_start]
      entered == context_enter(c0, ctx, now)
      exited == context_exit(entered.self, arch, ctx, work, now + took, probe)
      raised == with_raises(exited, work)
      operation_metrics == Get(exited.self.metrics_data, operation, EmptyDict)
      sent == send_cloudwatch_metrics(exited.self, arch, cw, operation, sink)
      response_data ==
        [ success |-> TRUE,
          operation |-> operation,
          architecture |-> arch,
          cold_start |-> is_cold_start,
          processing_result |-> "processing_result",
          performance_metrics |-> operation_metrics,
          function_info |-> [function_name |-> function_name,
                             function_version |-> function_version,
                             runtime |-> runtime,
                             architecture |-> arch] ]
      rejected(response, steps) ==
        [ self |-> c0, globals |-> g1, ret |-> response, exc |-> "none",
          is_cold_start |-> is_cold_start, steps |-> steps, now |-> now,
          scope |-> [ran |-> FALSE] ]
      worked(c1, response, steps) ==
        [ self |-> c1, globals |-> g1, ret |-> response, exc |-> "none",
          is_cold_start |-> is_cold_start, steps |-> steps, now |-> now + took,
          scope |-> [ran |-> TRUE, ctx |-> ctx, stop |-> exited.stop,
                     calls |-> exited.calls,
                     pending |-> operation \in DOMAIN entered.self.start_times] ]
  IN IF parsed.exc = "ValueError"
     THEN rejected(create_error_response(400, "Invalid input"),
                   << "parse_event" >>)
     ELSE IF parsed.exc # "none"
     THEN rejected(create_error_response(500, "Internal server error"),
                   << "parse_event" >>)
     ELSE IF ~validation_result.valid
     THEN rejected(create_error_response(400, validation_result.error),
                   << "parse_event", "validate_input" >>)
     ELSE IF raised = "ValueError"
     THEN worked(exited.self, create_error_response(400, "Invalid input"),
                 << "parse_event", "validate_input", "__enter__",
                    "process_workload", "__exit__" >>)
     ELSE IF raised # "none"
     THEN worked(exited.self, create_error_response(500, "Internal server error"),
                 << "parse_event", "validate_input", "__enter__",
                    "process_workload", "__exit__" >>)
     ELSE worked(sent.self, create_success_response(response_data),
                 << "parse_event", "validate_input", "__enter__",
                    "process_workload", "__exit__", "send_cloudwatch_metrics" >>)

\* ----------------------------------------- statistics of the trial results
\* A float that a division gives is the exact fraction, a record of a
\* numerator and a positive denominator in lowest terms; the times and
\* megabytes of the trials are whole numbers.
Abs(n) == IF n < 0 THEN -n ELSE n

RECURSIVE Gcd(_, _)
Gcd(a, b) == IF b = 0 THEN a ELSE Gcd(b, a % b)

\* n / d for d # 0
Frac(n, d) ==
  LET g == Gcd(Abs(n), Abs(d))
      sign == IF d < 0 THEN -1 ELSE 1
  IN [num |-> sign * (n \div g), den |-> sign * (d \div g)]

FracSub(a, b) == Frac(a.num * b.den - b.num * a.den, a.den * b.den)

FracMul(a, b) == Frac(a.num * b.num, a.den * b.den)

\* a / b for b # 0
FracDiv(a, b) == Frac(a.num * b.den, a.den * b.num)

FracLess(a, b) == a.num * b.den < b.num * a.den

RECURSIVE Sum(_)
Sum(s) == IF s = << >> THEN 0 ELSE s[1] + Sum(Tail(s))

RECURSIVE Min(_)
Min(s) ==
  IF Len(s) = 1 THEN s[1]
  ELSE LET m == Min(Tail(s)) IN IF s[1] <= m THEN s[1] ELSE m

\* sorted(s), ascending
RECURSIVE sorted(_)
sorted(s) ==
  IF s = << >> THEN << >>
  ELSE LET rest == sorted(Tail(s))
           k == Cardinality({i \in DOMAIN rest : rest[i] < s[1]})
       IN SubSeq(rest, 1, k) \o << s[1] >> \o SubSeq(rest, k + 1, Len(rest))

\* MockTestResult(architecture=..., operation=..., data_size=..., ...)
MockTestResult(arch, operation, data_size, time, memory, cold_start) ==
  [ architecture |-> arch, operation |-> operation, data_size |-> data_size,
    execution_time_ms |-> time, memory_used_mb |-> memory,
    cold_start |-> cold_start, status |-> "success" ]

\* the trials a driver gathers: the two arm64 trials of the test, trials of
\* the other architecture that tie with them, beat them or took no time, a
\* trial of another size, one of another operation and one whose
\* architecture was reported as unknown
Trials ==
  { MockTestResult("arm64", "sort", 100, 100, 50, FALSE),
    MockTestResult("arm64", "sort", 100, 120, 55, TRUE),
    MockTestResult("arm64", "sort", 200, 100, 50, FALSE),
    MockTestResult("x86_64", "sort", 100, 100, 60, FALSE),
    MockTestResult("x86_64", "sort", 100, 120, 65, TRUE),
    MockTestResult("x86_64", "sort", 100, 0, 60, FALSE),
    MockTestResult("x86_64", "math", 100, 120, 60, FALSE),
    MockTestResult("unknown", "sort", 200, 120, 60, FALSE) }

\* a grouping key that leaves the size out
group_key_without_size(result) == << result.architecture, result.operation, 0 >>

\* key = (result.architecture, result.operation, result.data_size)
group_key(result) ==
  << result.architecture, result.operation, result.data_size >>

\* the groups dict after the loop over results: the keys in the order of
\* their first result, each with the list of its results
RECURSIVE group_results(_, _)
group_results(results, groups) ==
  IF results = << >> THEN groups
  ELSE LET result == Head(results)
           key == group_key(result)
           at == {i \in DOMAIN groups : groups[i].key = key}
       IN group_results(Tail(results),
            IF at = {}
            THEN Append(groups, [key |-> key, members |-> << result >>])
            ELSE [i \in DOMAIN groups |->
                    IF i \in at
                    THEN [groups[i] EXCEPT !.members = Append(@, result)]
                    ELSE groups[i]])

\* a mean by floor division
mean_execution_time_floored(exec_times) ==
  Frac(Sum(exec_times) \div Len(exec_times), 1)

\* sum(exec_times) / len(exec_times)
mean_execution_time(exec_times) == Frac(Sum(exec_times), Len(exec_times))

\* the middle of the times in the order they came
median_execution_time_unsorted(exec_times) ==
  exec_times[Len(exec_times) \div 2 + 1]

\* sorted(exec_times)[len(exec_times)//2]; Python counts from 0
median_execution_time(exec_times) ==
  sorted(exec_times)[Len(exec_times) \div 2 + 1]

\* (cold_starts / len(group_results)) * 100
cold_start_percentage(cold_starts, n) ==
  FracMul(Frac(cold_starts, n), Frac(100, 1))

\* PerformanceStats(...) of one group
PerformanceStats(key, group) ==
  LET exec_times == [i \in DOMAIN group |-> group[i].execution_time_ms]
      memory == [i \in DOMAIN group |-> group[i].memory_used_mb]
      cold_starts == Cardinality({i \in DOMAIN group : group[i].cold_start})
  IN [ architecture |-> key[1],
       operation |-> key[2],
       data_size |-> key[3],
       sample_count |-> Len(group),
       mean_execution_time |-> mean_execution_time(exec_times),
       median_execution_time |-> median_execution_time(exec_times),
       std_dev_execution_time |-> 5,
       min_execution_time |-> Min(exec_times),
       max_execution_time |-> Max(exec_times),
       mean_memory_usage |-> Frac(Sum(memory), Len(group)),
       cold_start_percentage |-> cold_start_percentage(cold_starts, Len(group)) ]

\* LambdaPerformanceTester.calculate_statistics(results)
calculate_statistics(results) ==
  LET groups == group_results(results, << >>)
  IN [ ret |-> [i \in DOMAIN groups |->
                  PerformanceStats(groups[i].key, groups[i].members)],
       exc |-> "none" ]

\* ------------------------------------------ comparison of the architectures
Range(s) == {s[i] : i \in DOMAIN s}

\* a second side that takes every architecture other than arm64
on_side_all_others(s, arch) ==
  IF arch = "arm64" THEN s.architecture = "arm64" ELSE s.architecture # "arm64"

\* if s.architecture == "arm64" / if s.architecture == "x86_64"
on_side(s, arch) == s.architecture = arch

\* the keys of {(s.operation, s.data_size): s for s in stats
\*              if s.architecture == arch}, in the order the dict holds them
RECURSIVE side_keys(_, _)
side_keys(stats, arch) ==
  IF stats = << >> THEN << >>
  ELSE LET front == side_keys(SubSeq(stats, 1, Len(stats) - 1), arch)
           s == stats[Len(stats)]
           key == << s.operation, s.data_size >>
       IN IF on_side(s, arch) /\ key \notin Range(front)
          THEN Append(front, key)
          ELSE front

\* the value that dict holds at key: the last such s
side_stat(stats, arch, key) ==
  LET at == {i \in DOMAIN stats :
               /\ on_side(stats[i], arch)
               /\ << stats[i].operation, stats[i].data_size >> = key}
  IN stats[CHOOSE i \in at : \A j \in at : j <= i]

\* a winner that gives ties to arm64
winner_arm64_on_ties(arm_mean, x86_mean) ==
  IF FracLess(x86_mean, arm_mean) THEN "x86_64" ELSE "ARM64"

\* "ARM64" if arm_stat.mean_execution_time < x86_stat.mean_execution_time
\* else "x86_64"
winner(arm_mean, x86_mean) ==
  IF FracLess(arm_mean, x86_mean) THEN "ARM64" ELSE "x86_64"

\* the difference taken the other way round
diff_percent_reversed(arm_mean, x86_mean) ==
  FracMul(FracDiv(FracSub(x86_mean, arm_mean), x86_mean), Frac(100, 1))

\* ((arm - x86) / x86) * 100, for x86 # 0
diff_percent(arm_mean, x86_mean) ==
  FracMul(FracDiv(FracSub(arm_mean, x86_mean), x86_mean), Frac(100, 1))

\* f"{key[0]}_{key[1]}"
comparison_key(key) == key[1] \o "_" \o ToString(key[2])

\* LambdaPerformanceTester.compare_architectures(stats): the comparisons
\* dict, or the ZeroDivisionError of the first division by a mean of 0.0
compare_architectures(stats) ==
  LET arm64_keys == side_keys(stats, "arm64")
      x86_keys == side_keys(stats, "x86_64")
      paired(key) == key \in Range(x86_keys)
      both == SelectSeq(arm64_keys, paired)
      comparison(key) ==
        LET arm_stat == side_stat(stats, "arm64", key)
            x86_stat == side_stat(stats, "x86_64", key)
        IN [ operation |-> key[1],
             data_size |-> key[2],
             winner |-> winner(arm_stat.mean_execution_time,
                               x86_stat.mean_execution_time),
             execution_time_diff_percent |->
               diff_percent(arm_stat.mean_execution_time,
                            x86_stat.mean_execution_time) ]
      names == {comparison_key(both[i]) : i \in DOMAIN both}
      written(name) ==
        CHOOSE i \in DOMAIN both :
          /\ comparison_key(both[i]) = name
          /\ \A j \in DOMAIN both : comparison_key(both[j]) = name => j <= i
  IN IF \E i \in DOMAIN both :
          side_stat(stats, "x86_64", both[i]).mean_execution_time.num = 0
     THEN [ret |-> EmptyDict, exc |-> "ZeroDivisionError"]
     ELSE [ret |-> [name \in names |-> comparison(both[written(name)])],
           exc |-> "none"]

\* ------------------------------------------------ scripts/performance_test.py
\* what run_single_test returns for a trial that succeeded
single_test(r) ==
  [ success |-> TRUE, lambda_time |-> r.execution_time_ms,
    memory_used |-> r.memory_used_mb, cold_start |-> r.cold_start,
    architecture |-> r.architecture ]

\* statistics.mean(data)
statistics_mean(data) == Frac(Sum(data), Len(data))

\* statistics.stdev(data) for two values or more: the square root of the
\* sample variance, sum((x - mean)^2) / (n - 1)
statistics_stdev(data) ==
  LET n == Len(data)
      squares == [i \in DOMAIN data |->
                    (n * data[i] - Sum(data)) * (n * data[i] - Sum(data))]
  IN [sqrt |-> Frac(Sum(squares), n * n * (n - 1))]

\* f"{x:.1f}% faster" for x >= 0: x to the nearest tenth, halves to even
faster_by(x) ==
  LET q == (10 * x.num) \div x.den
      r == (10 * x.num) % x.den
      tenths == IF 2 * r > x.den \/ (2 * r = x.den /\ q % 2 = 1)
                THEN q + 1 ELSE q
  IN ToString(tenths \div 10) \o "." \o ToString(tenths % 10) \o "% faster"

\* the statistics analyze_results gives for the results of one endpoint
endpoint_analysis(endpoint_results) ==
  LET times == [i \in DOMAIN endpoint_results |-> endpoint_results[i].lambda_time]
      memory == [i \in DOMAIN endpoint_results |-> endpoint_results[i].memory_used]
  IN [ avg_time_ms |-> statistics_mean(times),
       min_time_ms |-> Min(times),
       max_time_ms |-> Max(times),
       std_dev_ms |-> IF Len(times) > 1
                      THEN statistics_stdev(times)
                      ELSE [sqrt |-> Frac(0, 1)],
       avg_memory_mb |-> statistics_mean(memory),
       cold_starts |-> Cardinality({i \in DOMAIN endpoint_results :
                                      endpoint_results[i].cold_start}) ]

\* PerformanceTester.analyze_results(operation, arm64_results, x86_results)
analyze_results(operation, arm64_results, x86_results) ==
  IF arm64_results = << >> \/ x86_results = << >>
  THEN [ret |-> [error |-> "Insufficient data for comparison"], exc |-> "none"]
  ELSE LET analysis == [ operation |-> operation,
                         test_count |-> Len(arm64_results),
                         arm64 |-> endpoint_analysis(arm64_results),
                         x86_64 |-> endpoint_analysis(x86_results) ]
           arm64_avg == analysis.arm64.avg_time_ms
           x86_avg == analysis.x86_64.avg_time_ms
           performance_ratio == FracDiv(arm64_avg, x86_avg)
           one == Frac(1, 1)
           hundred == Frac(100, 1)
       IN IF x86_avg.num <= 0
          THEN [ret |-> analysis, exc |-> "none"]
          ELSE IF FracLess(performance_ratio, one)
          THEN [ret |-> Update(analysis,
                          [winner |-> "ARM64",
                           performance_improvement |->
                             faster_by(FracMul(FracSub(one, performance_ratio),
                                               hundred))]),
                exc |-> "none"]
          ELSE [ret |-> Update(analysis,
                          [winner |-> "x86_64",
                           performance_improvement |->
                             faster_by(FracMul(FracSub(performance_ratio, one),
                                               hundred))]),
                exc |-> "none"]

\* ------------------------------------- the driver of the remote comparison
\* what requests.post gives for the endpoint of one architecture: a response
\* (its status, its body, JSON or not, the seconds it took), a Timeout after
\* the 60 seconds allowed, or a ConnectionError
HttpOk(data, elapsed) ==
  [kind |-> "response", status_code |-> 200, json |-> TRUE, data |-> data,
   elapsed |-> elapsed]

\* the body of a handler's 200 response, as far as run_single_test reads it
SuccessBody(arch, time, memory, cold_start) ==
  [ performance_metrics |-> [execution_time_ms |-> time, memory_used_mb |-> memory],
    cold_start |-> cold_start, architecture |-> arch ]

Timeout == [kind |-> "Timeout"]

Responses(arch) ==
  { HttpOk(SuccessBody(arch, 100, 50, TRUE), 1),
    HttpOk(SuccessBody(arch, 120, 55, FALSE), 1),
    HttpOk(EmptyDict, 0),
    [kind |-> "response", status_code |-> 200, json |-> FALSE, elapsed |-> 0],
    [kind |-> "response", status_code |-> 500, json |-> TRUE,
     text |-> "Internal server error", elapsed |-> 0],
    Timeout,
    [kind |-> "ConnectionError"] }

\* the responses the endpoints give during a run over all the test cases
BatchResponses(arch) == {HttpOk(SuccessBody(arch, 100, 50, FALSE), 1), Timeout}

\* an except clause that lets the exception through
except_Exception_reraises(e) == [ret |-> EmptyDict, exc |-> e]

\* except Exception as e: return {"success": False, "error": str(e)}
except_Exception(e) == [ret |-> [success |-> FALSE, error |-> e], exc |-> "none"]

\* PerformanceTester.run_single_test(url, payload), given what the post gave
run_single_test(response) ==
  IF response.kind # "response"
  THEN except_Exception(response.kind)
  ELSE IF response.status_code = 200
  THEN IF ~response.json
       THEN except_Exception("JSONDecodeError")
       ELSE LET data == response.data
                performance_metrics == Get(data, "performance_metrics", EmptyDict)
            IN [ ret |-> [ success |-> TRUE,
                           http_time |-> response.elapsed * 1000,
                           lambda_time |-> Get(performance_metrics, "execution_time_ms", 0),
                           memory_used |-> Get(performance_metrics, "memory_used_mb", 0),
                           cold_start |-> Get(data, "cold_start", FALSE),
                           architecture |-> Get(data, "architecture", "unknown"),
                           response |-> data ],
                 exc |-> "none" ]
  ELSE [ ret |-> [ success |-> FALSE,
                   error |-> "HTTP " \o ToString(response.status_code) \o ": "
                               \o response.text ],
         exc |-> "none" ]

\* a loop that never pauses
pause_after_never(arch, i, iterations) == 0

\* the seconds run_comparison_test sleeps after the trial of arch in
\* iteration i: time.sleep(1) after the arm64 trial, time.sleep(2) after the
\* x86_64 trial if i < iterations - 1
pause_after(arch, i, iterations) ==
  IF arch = "arm64" THEN 1
  ELSE IF i < iterations - 1 THEN 2 ELSE 0

\* a batch that keeps the analyses that carry an error too
keep_analysis_always(results, analysis) == Append(results, analysis)

\* if "error" not in analysis: results.append(analysis)
keep_analysis(results, analysis) ==
  IF "error" \notin DOMAIN analysis THEN Append(results, analysis) ELSE results

\* the test_cases of run_comprehensive_test(iterations)
test_cases(iterations) ==
  << [ operation |-> "sort_intensive",
       params |-> [data_size |-> 8000, iterations |-> 1],
       iterations |-> iterations ],
     [ operation |-> "mathematical_computation",
       params |-> [complexity |-> 2000, iterations |-> 1],
       iterations |-> iterations ],
     [ operation |-> "string_processing",
       params |-> [text_size |-> 15000, iterations |-> 1],
       iterations |-> iterations ],
     [ operation |-> "memory_intensive",
       params |-> [memory_size_mb |-> 20, iterations |-> 1],
       iterations |-> iterations ] >>

\* a tester that runs nothing: PerformanceTester(arm64_url, x86_url)
Idle ==
  [ pc |-> "idle", mode |-> "none", cases |-> << >>, case |-> 0,
    operation |-> "", payload |-> EmptyDict, iterations |-> 0, i |-> 0,
    arch |-> "arm64", arm64_results |-> << >>, x86_results |-> << >>,
    due |-> 0, results |-> << >>, analyses |-> << >>, trace |-> << >>,
    ret |-> << >> ]

\* the entry of run_comparison_test for the test case t.case: the payload,
\* the two empty lists and the first iteration of the loop, if there is one
enter_comparison(t) ==
  LET tc == t.cases[t.case]
  IN [t EXCEPT !.operation = tc.operation,
               !.payload = Update([operation |-> tc.operation], tc.params),
               !.iterations = tc.iterations,
               !.i = 0,
               !.arch = "arm64",
               !.arm64_results = << >>,
               !.x86_results = << >>,
               !.due = 0,
               !.trace = << >>,
               !.pc = IF tc.iterations > 0 THEN "post" ELSE "analyze"]

\* the loop of run_comparison_test after a trial and its pause: the x86_64
\* trial of the same iteration, the next iteration, or the end of the loop
advance(t) ==
  IF t.arch = "arm64" THEN [t EXCEPT !.arch = "x86_64", !.pc = "post"]
  ELSE IF t.i + 1 < t.iterations
  THEN [t EXCEPT !.i = @ + 1, !.arch = "arm64", !.pc = "post"]
  ELSE [t EXCEPT !.pc = "analyze"]

\* ---------------------------------------------------------------- actions
Install(c) ==
  /\ metrics_data' = c.metrics_data
  /\ start_times' = c.start_times
  /\ memory_samples' = c.memory_samples

\* PerformanceMetrics(architecture="x86_64", function_name="test-function"):
\* the CloudWatch client is there or, its creation having failed, None
Init ==
  /\ architecture = "x86_64"
  /\ cloudwatch \in {"client", "None"}
  /\ metrics_data = EmptyDict
  /\ start_times = EmptyDict
  /\ memory_samples = << >>
  /\ clock = 0
  /\ scopes = << >>
  /\ last = [call |-> "__init__"]
  /\ stops = EmptyDict
  /\ tainted = {}
  /\ recorded = {}
  /\ ncalls = 0
  /\ _cold_start = TRUE
  /\ _metrics_collector = "None"
  /\ test_results = << >>
  /\ test_stats = << >>
  /\ tester = Idle

\* time passes
Tick ==
  /\ clock < MaxClock
  /\ clock' = clock + 1
  /\ UNCHANGED << outside, architecture, cloudwatch, metrics_data, start_times,
                  memory_samples, scopes, last, stops, tainted, recorded >>

\* the history of a stop_timer(operation) call that returned r
StopHistory(operation, r) ==
  IF operation \in DOMAIN start_times
  THEN /\ stops' = Put(stops, operation, r)
       /\ tainted' = tainted \ {operation}
  ELSE UNCHANGED << stops, tainted >>

StartTimer(operation) ==
  LET r == start_timer(self, operation, clock)
  IN /\ Install(r.self)
     /\ last' = [call |-> "start_timer", operation |-> operation,
                 ret |-> r.ret, exc |-> r.exc]
     /\ UNCHANGED << outside, architecture, cloudwatch, clock, scopes, stops, tainted,
                     recorded >>

StopTimer(operation) ==
  LET r == stop_timer(self, operation, clock)
  IN /\ Install(r.self)
     /\ last' = [call |-> "stop_timer", operation |-> operation,
                 pending |-> operation \in DOMAIN start_times,
                 ret |-> r.ret, exc |-> r.exc]
     /\ StopHistory(operation, r.ret)
     /\ UNCHANGED << outside, architecture, cloudwatch, clock, scopes, recorded >>

CaptureMemory(probe) ==
  LET r == capture_memory_usage(self, probe)
  IN /\ Install(r.self)
     /\ last' = [call |-> "capture_memory_usage", ok |-> probe.ok,
                 ret |-> r.ret, exc |-> r.exc]
     /\ UNCHANGED << outside, architecture, cloudwatch, clock, scopes, stops, tainted,
                     recorded >>

GetPeak ==
  /\ last' = [call |-> "get_peak_memory_usage",
              ret |-> get_peak_memory_usage(self), exc |-> "none"]
  /\ UNCHANGED << outside, architecture, cloudwatch, metrics_data, start_times,
                  memory_samples, clock, scopes, stops, tainted, recorded >>

Record(operation, args, probe) ==
  LET r == record_operation_metrics(self, architecture, operation, args.data_size,
                                    args.iterations, args.cold_start,
                                    args.additional_metrics, probe)
  IN /\ Install(r.self)
     /\ last' = [call |-> "record_operation_metrics", operation |-> operation,
                 args |-> args, ok |-> probe.ok, ret |-> r.ret, exc |-> r.exc]
     /\ tainted' = IF "execution_time_ms" \in DOMAIN args.additional_metrics
                   THEN tainted \cup {operation} ELSE tainted
     /\ recorded' = recorded \cup {operation}
     /\ UNCHANGED << outside, architecture, cloudwatch, clock, scopes, stops >>

Send(operation, sink) ==
  LET r == send_cloudwatch_metrics(self, architecture, cloudwatch, operation, sink)
  IN /\ Install(r.self)
     /\ last' = [call |-> "send_cloudwatch_metrics", operation |-> operation,
                 sink |-> sink, ret |-> r.ret, exc |-> r.exc, sent |-> r.sent]
     /\ UNCHANGED << outside, architecture, cloudwatch, clock, scopes, stops, tainted,
                     recorded >>

Reset ==
  LET r == reset_metrics(self)
  IN /\ Install(r.self)
     /\ last' = [call |-> "reset_metrics",
                 cleared |-> [entries |-> Cardinality(DOMAIN metrics_data),
                              timers |-> Cardinality(DOMAIN start_times),
                              samples |-> Len(memory_samples)],
                 ret |-> r.ret, exc |-> r.exc]
     /\ stops' = EmptyDict
     /\ tainted' = {}
     /\ recorded' = {}
     /\ UNCHANGED << outside, architecture, cloudwatch, clock, scopes >>

\* with MetricsContext(metrics, operation, ...): entry of the scope
EnterScope(operation, shape) ==
  LET ctx == [operation |-> operation, data_size |-> shape.data_size,
              iterations |-> shape.iterations, cold_start |-> shape.cold_start]
      r == context_enter(self, ctx, clock)
  IN /\ Install(r.self)
     /\ scopes' = Append(scopes, [ctx |-> ctx, entered |-> clock])
     /\ last' = [call |-> "__enter__", operation |-> operation,
                 ret |-> r.ret, exc |-> r.exc]
     /\ UNCHANGED << outside, architecture, cloudwatch, clock, stops, tainted, recorded >>

\* the innermost scope ends: its work returned or raised
ExitScope(outcome, probe) ==
  /\ scopes # << >>
  /\ LET top == scopes[Len(scopes)]
         ctx == top.ctx
         r == context_exit(self, architecture, ctx, outcome, clock, probe)
     IN /\ Install(r.self)
        /\ scopes' = SubSeq(scopes, 1, Len(scopes) - 1)
        /\ last' = [call |-> "__exit__", operation |-> ctx.operation,
                    ctx |-> ctx, outcome |-> outcome,
                    pending |-> ctx.operation \in DOMAIN start_times,
                    elapsed |-> (clock - top.entered) * 1000,
                    calls |-> r.calls, stop |-> r.stop,
                    ret |-> r.ret, exc |-> r.exc,
                    raised |-> with_raises(r, outcome)]
        /\ StopHistory(ctx.operation, r.stop)
        /\ recorded' = IF "record_operation_metrics" \in {r.calls[i] : i \in DOMAIN r.calls}
                       THEN recorded \cup {ctx.operation} ELSE recorded
        /\ UNCHANGED << outside, architecture, cloudwatch, clock >>

\* one invocation of lambda_handler in the process
LambdaHandler(event, work, took, probe, sink) ==
  /\ clock + took <= MaxClock
  /\ \E r \in {lambda_handler([_cold_start |-> _cold_start,
                                _metrics_collector |-> _metrics_collector],
                               self, architecture, cloudwatch, event, work,
                               clock, took, probe, sink)} :
        /\ Install(r.self)
        /\ _cold_start' = r.globals._cold_start
        /\ _metrics_collector' = r.globals._metrics_collector
        /\ clock' = r.now
        /\ last' = [call |-> "lambda_handler", event |-> event, work |-> work,
                    is_cold_start |-> r.is_cold_start,
                    status |-> r.ret.statusCode, steps |-> r.steps,
                    scope |-> r.scope, ret |-> r.ret, exc |-> r.exc,
                    earlier |-> IF last.call = "lambda_handler"
                                THEN Append(last.earlier, last.status)
                                ELSE << >>]
        /\ IF r.scope.ran
           THEN /\ stops' = Put(stops, r.scope.ctx.operation, r.scope.stop)
                /\ tainted' = tainted \ {r.scope.ctx.operation}
                /\ recorded' = recorded \cup {r.scope.ctx.operation}
           ELSE UNCHANGED << stops, tainted, recorded >>
        /\ UNCHANGED << architecture, cloudwatch, scopes, test_results, test_stats,
                        tester >>

\* the driver gathers the result of one more trial
Collect(result) ==
  /\ Len(test_results) < MaxResults
  /\ test_results' = Append(test_results, result)
  /\ last' = [call |-> "append", result |-> result]
  /\ UNCHANGED << architecture, cloudwatch, metrics_data, start_times,
                  memory_samples, clock, scopes, stops, tainted, recorded,
                  ncalls, _cold_start, _metrics_collector, test_stats,
                  tester >>

\* stats = tester.calculate_statistics(results)
CalculateStatistics ==
  LET r == calculate_statistics(test_results)
  IN /\ test_stats' = r.ret
     /\ last' = [call |-> "calculate_statistics", results |-> test_results,
                 ret |-> r.ret, exc |-> r.exc]
     /\ UNCHANGED << architecture, cloudwatch, metrics_data, start_times,
                     memory_samples, clock, scopes, stops, tainted, recorded,
                     ncalls, _cold_start, _metrics_collector, test_results,
                     tester >>

\* comparisons = tester.compare_architectures(stats)
CompareArchitectures ==
  LET r == compare_architectures(test_stats)
  IN /\ last' = [call |-> "compare_architectures", stats |-> test_stats,
                 ret |-> r.ret, exc |-> r.exc]
     /\ UNCHANGED << architecture, cloudwatch, metrics_data, start_times,
                     memory_samples, clock, scopes, stops, tainted, recorded,
                     ncalls, outside >>

\* the results of the trials of one payload that an endpoint answered
endpoint_results(results, arch, operation, data_size) ==
  LET answered(r) == /\ r.architecture = arch
                     /\ r.operation = operation
                     /\ r.data_size = data_size
      chosen == SelectSeq(results, answered)
  IN [i \in DOMAIN chosen |-> single_test(chosen[i])]

\* analyze_results on the trials of one payload, those of the arm64 endpoint
\* and those of the x86_64 endpoint
AnalyzeResults(operation, data_size) ==
  LET arm64_results == endpoint_results(test_results, "arm64", operation, data_size)
      x86_results == endpoint_results(test_results, "x86_64", operation, data_size)
      r == analyze_results(operation, arm64_results, x86_results)
  IN /\ last' = [call |-> "analyze_results", operation |-> operation,
                 arm64_results |-> arm64_results, x86_results |-> x86_results,
                 ret |-> r.ret, exc |-> r.exc]
     /\ UNCHANGED << architecture, cloudwatch, metrics_data, start_times,
                     memory_samples, clock, scopes, stops, tainted, recorded,
                     ncalls, outside >>

\* what the tester's steps leave alone
NotTester ==
  << architecture, cloudwatch, metrics_data, start_times, memory_samples,
     clock, scopes, stops, tainted, recorded, ncalls, _cold_start,
     _metrics_collector, test_results, test_stats >>

\* tester.run_comparison_test(operation, params, iterations) is called
BeginComparison(k, iterations) ==
  /\ tester.pc = "idle"
  /\ tester' = enter_comparison([Idle EXCEPT !.mode = "comparison",
                                             !.cases = << test_cases(iterations)[k] >>,
                                             !.case = 1])
  /\ last' = [call |-> "run_comparison_test", iterations |-> iterations]
  /\ UNCHANGED NotTester

\* tester.run_comprehensive_test(iterations) is called
BeginComprehensive(iterations) ==
  /\ tester.pc = "idle"
  /\ tester' = enter_comparison([Idle EXCEPT !.mode = "comprehensive",
                                             !.cases = test_cases(iterations),
                                             !.case = 1])
  /\ last' = [call |-> "run_comprehensive_test", iterations |-> iterations]
  /\ UNCHANGED NotTester

\* run_single_test sends the payload to the endpoint: requests.post(...)
Post ==
  /\ tester.pc = "post"
  /\ tester' = [tester EXCEPT
                  !.pc = "wait",
                  !.trace = Append(@, [e |-> "start", arch |-> tester.arch,
                                       i |-> tester.i])]
  /\ last' = [call |-> "post", arch |-> tester.arch, i |-> tester.i,
              payload |-> tester.payload]
  /\ UNCHANGED NotTester

\* the post returns or raises, run_single_test returns, and
\* run_comparison_test keeps the result if it is a success
Reply(response) ==
  /\ tester.pc = "wait"
  /\ LET r == run_single_test(response)
         kept == [tester EXCEPT
                    !.arm64_results =
                       IF tester.arch = "arm64" /\ r.ret.success
                       THEN Append(@, r.ret) ELSE @,
                    !.x86_results =
                       IF tester.arch = "x86_64" /\ r.ret.success
                       THEN Append(@, r.ret) ELSE @,
                    !.trace = Append(@, [e |-> "end", arch |-> tester.arch,
                                         i |-> tester.i]),
                    !.due = pause_after(tester.arch, tester.i, tester.iterations)]
     IN /\ tester' = IF r.exc # "none"
                     THEN [tester EXCEPT !.pc = "raised",
                                         !.ret = [exception |-> r.exc]]
                     ELSE IF kept.due > 0
                     THEN [kept EXCEPT !.pc = "sleep"]
                     ELSE advance(kept)
        /\ last' = [call |-> "run_single_test", arch |-> tester.arch,
                    i |-> tester.i, response |-> response,
                    ret |-> r.ret, exc |-> r.exc,
                    arm64_before |-> tester.arm64_results,
                    x86_before |-> tester.x86_results]
  /\ UNCHANGED NotTester

\* time.sleep(1) between the trials of a pair, time.sleep(2) between two
\* iterations
Sleep ==
  /\ tester.pc = "sleep"
  /\ tester' = advance([tester EXCEPT
                          !.trace = Append(@, [e |-> "sleep",
                                               seconds |-> tester.due])])
  /\ last' = [call |-> "sleep", seconds |-> tester.due]
  /\ UNCHANGED NotTester

\* return self.analyze_results(operation, arm64_results, x86_results), and
\* in run_comprehensive_test the rest of the loop over the test cases
Analyze ==
  /\ tester.pc = "analyze"
  /\ LET r == analyze_results(tester.operation, tester.arm64_results,
                              tester.x86_results)
         results == keep_analysis(tester.results, r.ret)
         looped == [tester EXCEPT !.results = results,
                                  !.analyses = Append(@, r.ret)]
     IN /\ tester' =
             IF tester.mode = "comparison"
             THEN [tester EXCEPT !.pc = "done", !.ret = r.ret]
             ELSE IF tester.case < Len(tester.cases)
             THEN enter_comparison([looped EXCEPT !.case = @ + 1])
             ELSE [looped EXCEPT !.pc = "done", !.ret = results]
        /\ last' = [call |-> "analyze_results", operation |-> tester.operation,
                    arm64_results |-> tester.arm64_results,
                    x86_results |-> tester.x86_results,
                    ret |-> r.ret, exc |-> r.exc]
  /\ UNCHANGED NotTester

\* one more call on the collector, of at most n
Within(n) == ncalls < n /\ ncalls' = ncalls + 1

\* direct calls of the timers, of record and of reset
Next ==
  \/ Tick /\ UNCHANGED ncalls
  \/ \E operation \in Ops : Within(MaxCalls) /\ StartTimer(operation)
  \/ \E operation \in Ops : Within(MaxCalls) /\ StopTimer(operation)
  \/ \E operation \in Ops, args \in RecordArgs, probe \in Probes :
       Within(MaxCalls) /\ Record(operation, args, probe)
  \/ Within(MaxCalls) /\ Reset

Spec == Init /\ [][Next]_vars

\* scopes whose work makes no call on the collector of its own
NextScopes ==
  \/ Tick /\ UNCHANGED ncalls
  \/ \E operation \in Ops, shape \in Shapes :
       Within(MaxScopeCalls) /\ EnterScope(operation, shape)
  \/ \E outcome \in WorkOutcomes, probe \in Probes :
       Within(MaxScopeCalls) /\ ExitScope(outcome, probe)

SpecScopes == Init /\ [][NextScopes]_vars

\* memory sampling, the peak and the sink
NextMemory ==
  \/ \E probe \in Probes : Within(MaxCalls) /\ CaptureMemory(probe)
  \/ Within(MaxCalls) /\ GetPeak
  \/ \E operation \in Ops, sink \in SinkOutcomes :
       Within(MaxCalls) /\ Send(operation, sink)
  \/ \E operation \in Ops, args \in {PlainArgs, PeakArgs}, probe \in Probes :
       Within(MaxCalls) /\ Record(operation, args, probe)
  \/ Within(MaxCalls) /\ Reset

SpecMemory == Init /\ [][NextMemory]_vars

\* the timers, record and the sink
NextSink ==
  \/ \E operation \in Ops : Within(MaxCalls) /\ StartTimer(operation)
  \/ \E operation \in Ops : Within(MaxCalls) /\ StopTimer(operation)
  \/ \E operation \in Ops, probe \in Probes :
       Within(MaxCalls) /\ Record(operation, PlainArgs, probe)
  \/ \E operation \in Ops, sink \in SinkOutcomes :
       Within(MaxCalls) /\ Send(operation, sink)

SpecSink == Init /\ [][NextSink]_vars

\* the invocations of lambda_handler in one process
NextHandler ==
  \E inv \in Invocations :
    Within(MaxCalls) /\
      LambdaHandler(inv.event, inv.work, inv.took, inv.probe, inv.sink)

SpecHandler == Init /\ [][NextHandler]_vars

\* the invocations of the sort event, of the mathematical event and of an
\* unknown operation
ScopedInvocations ==
  { inv \in Invocations :
      inv.event \in {SortEvent, [operation |-> "mathematical_computation"],
                     [operation |-> "invalid_operation"]} }

\* invocations of the handler, and between them scopes and stops that other
\* code of the process makes on the collector of the module
NextProcess ==
  \/ Tick /\ UNCHANGED ncalls
  \/ \E inv \in ScopedInvocations :
       Within(MaxCalls) /\
         LambdaHandler(inv.event, inv.work, inv.took, inv.probe, inv.sink)
  \/ \E operation \in Ops :
       Within(MaxCalls) /\ _metrics_collector # "None" /\
         EnterScope(operation, [data_size |-> 500, iterations |-> 3,
                                cold_start |-> FALSE])
  \/ \E outcome \in WorkOutcomes :
       Within(MaxCalls) /\
         ExitScope(outcome, CHOOSE p \in Probes : p.ok /\ p.rss = 50 * BytesPerMb)
  \/ \E operation \in Ops :
       Within(MaxCalls) /\ _metrics_collector # "None" /\ StopTimer(operation)

SpecProcess == Init /\ [][NextProcess]_vars

\* the benchmark driver: trial results gathered, summarised and compared
NextBench ==
  \/ \E result \in Trials : Collect(result)
  \/ CalculateStatistics
  \/ CompareArchitectures
  \/ \E operation \in {"sort", "math"}, data_size \in {100, 200} :
       AnalyzeResults(operation, data_size)

SpecBench == Init /\ [][NextBench]_vars

\* one call of run_comparison_test on one of the first two test cases
NextComparison ==
  \/ \E k \in 1..2, iterations \in 0..MaxIterations :
       BeginComparison(k, iterations)
  \/ Post
  \/ \E response \in Responses(tester.arch) : Reply(response)
  \/ Sleep
  \/ Analyze

SpecComparison == Init /\ [][NextComparison]_vars

\* one call of run_comprehensive_test
NextComprehensive ==
  \/ \E iterations \in 0..MaxBatchIterations : BeginComprehensive(iterations)
  \/ Post
  \/ \E response \in BatchResponses(tester.arch) : Reply(response)
  \/ Sleep
  \/ Analyze

SpecComprehensive == Init /\ [][NextComprehensive]_vars

\* ------------------------------------------------------------- properties
ExitCalls == << "stop_timer", "record_operation_metrics" >>

\* C1: whenever a scope has exited, its work having returned or raised, the
\* exit made the calls stop_timer then record_operation_metrics, once each,
\* and the collector holds an entry for the scope's operation that carries
\* the scope's data_size, iterations and cold_start.
C1_ScopeExitRecords ==
  last.call = "__exit__" =>
    /\ last.calls = ExitCalls
    /\ last.operation \in DOMAIN metrics_data
    /\ metrics_data[last.operation]["data_size"] = last.ctx.data_size
    /\ metrics_data[last.operation]["iterations"] = last.ctx.iterations
    /\ metrics_data[last.operation]["cold_start"] = last.ctx.cold_start

\* the second of two scopes of one operation has exited, its work having
\* raised, over the entry the first one left
C1_Witness ==
  /\ last.call = "__exit__"
  /\ last.outcome = "RuntimeError"
  /\ ncalls = 4
  /\ scopes = << >>
  /\ DOMAIN metrics_data = {last.operation}
  /\ last.ctx.data_size = 1000
  /\ metrics_data[last.operation]["data_size"] = 1000

\* C2: when the work of a scope raised, the caller gets that same fault,
\* after an exit that raised nothing itself and ran stop_timer then
\* record_operation_metrics.
C2_FaultReachesCaller ==
  (last.call = "__exit__" /\ last.outcome # "return") =>
    /\ last.exc = "none"
    /\ last.raised = last.outcome
    /\ last.calls = ExitCalls

C2_Witness ==
  /\ last.call = "__exit__"
  /\ last.raised = "RuntimeError"
  /\ last.pending
  /\ last.operation \in DOMAIN metrics_data
  /\ metrics_data[last.operation]["execution_time_ms"] = 1000

\* C3: the entry recorded at the exit of a scope has the execution_time_ms
\* of that scope's own entry-to-exit duration, nested scopes included.
C3_NestSafe ==
  last.call = "__exit__" =>
    metrics_data[last.operation]["execution_time_ms"] = last.elapsed

\* C4: stop_timer for an operation with no pending start returns 0.0 and
\* raises nothing.
C4_StopWithoutStart ==
  (last.call = "stop_timer" /\ ~last.pending) =>
    /\ last.exc = "none"
    /\ last.ret = 0

\* a second stop of an operation whose first stop took a second
C4_Witness ==
  /\ last.call = "stop_timer"
  /\ ~last.pending
  /\ last.ret = 0
  /\ last.operation \in DOMAIN stops
  /\ stops[last.operation] = 1000

C6_RecordOverwrites ==
  [][ (ncalls' # ncalls /\ last'.call \in {"record_operation_metrics", "stop_timer"}) =>
        LET o == last'.operation
        IN /\ \A p \in Ops \ {o} :
                /\ p \in DOMAIN metrics_data' <=> p \in DOMAIN metrics_data
                /\ p \in DOMAIN metrics_data => metrics_data'[p] = metrics_data[p]
           /\ last'.call = "record_operation_metrics" =>
                /\ o \in DOMAIN metrics_data'
                /\ DOMAIN metrics_data' = DOMAIN metrics_data \cup {o}
    ]_vars

\* an operation recorded a second time while the other one has an entry
C6_Witness ==
  /\ last.call = "record_operation_metrics"
  /\ last.args.additional_metrics = EmptyDict
  /\ "custom_metric" \in DOMAIN metrics_data[last.operation]
  /\ DOMAIN metrics_data = Ops

\* C7: right after record_operation_metrics returns, the stored entry of the
\* operation equals the entry returned.
C7_StoredEqualsReturned ==
  last.call = "record_operation_metrics" =>
    metrics_data[last.operation] = last.ret

Samples == {memory_samples[i] : i \in DOMAIN memory_samples}

\* C9: get_peak_memory_usage is 0.0 while there is no sample and otherwise
\* one of the samples and at least each of them, in whatever order they came.
C9_PeakIsMaximum ==
  LET peak == get_peak_memory_usage(self)
  IN /\ memory_samples = << >> => peak = 0
     /\ memory_samples # << >> => peak \in Samples /\ \A x \in Samples : x <= peak
     /\ last.call = "get_peak_memory_usage" => last.ret = peak

\* the peak asked for after a larger sample was followed by a smaller one
C9_Witness ==
  /\ last.call = "get_peak_memory_usage"
  /\ memory_samples = << 100, 50 >>
  /\ last.ret = 100

\* C10: right after reset_metrics there is no entry, no pending start and no
\* sample, so for every operation stop_timer returns 0.0,
\* send_cloudwatch_metrics returns False, and the peak is 0.0.
C10_ResetClears ==
  last.call = "reset_metrics" =>
    /\ metrics_data = EmptyDict
    /\ start_times = EmptyDict
    /\ memory_samples = << >>
    /\ get_peak_memory_usage(self) = 0
    /\ \A o \in Ops :
         /\ stop_timer(self, o, clock).exc = "none"
         /\ stop_timer(self, o, clock).ret = 0
         /\ \A sink \in SinkOutcomes :
              ~send_cloudwatch_metrics(self, architecture, cloudwatch, o, sink).ret

\* a reset of a collector that had an entry, a pending start and a sample,
\* with the CloudWatch client at hand
C10_Witness ==
  /\ last.call = "reset_metrics"
  /\ last.cleared.entries > 0
  /\ last.cleared.timers > 0
  /\ last.cleared.samples > 0
  /\ cloudwatch = "client"

\* C11: send_cloudwatch_metrics raises nothing; it returns False when there
\* is no CloudWatch client, when the operation has no entry, and when
\* put_metric_data raises; it returns True only when put_metric_data was
\* called and returned.
C11_SendNeverRaises ==
  last.call = "send_cloudwatch_metrics" =>
    /\ last.exc = "none"
    /\ cloudwatch = "None" => ~last.ret
    /\ last.operation \notin DOMAIN metrics_data => ~last.ret
    /\ last.sink # "ok" => ~last.ret
    /\ last.ret => (last.sent # << >> /\ last.sink = "ok")

\* put_metric_data was handed an entry's metrics and raised
C11_Witness ==
  /\ last.call = "send_cloudwatch_metrics"
  /\ cloudwatch = "client"
  /\ last.sink = "Exception"
  /\ last.sent # << >>
  /\ ~last.ret

\* C12: a send_cloudwatch_metrics call, whatever it returns and whatever the
\* sink does, leaves metrics_data, start_times and memory_samples as they
\* were, so every record made after it returns and stores what it would
\* have without the send.
C12_SendLeavesCollector ==
  [][ (ncalls' # ncalls /\ last'.call = "send_cloudwatch_metrics") =>
        /\ metrics_data' = metrics_data
        /\ start_times' = start_times
        /\ memory_samples' = memory_samples
        /\ \A o \in Ops, args \in RecordArgs, probe \in Probes :
             record_operation_metrics(self', architecture, o, args.data_size,
                                      args.iterations, args.cold_start,
                                      args.additional_metrics, probe)
             = record_operation_metrics(self, architecture, o, args.data_size,
                                        args.iterations, args.cold_start,
                                        args.additional_metrics, probe)
    ]_vars

\* a send that the sink failed, of a collector with an entry, a sample and
\* a pending start
C12_Witness ==
  /\ last.call = "send_cloudwatch_metrics"
  /\ last.sink = "ClientError"
  /\ last.sent # << >>
  /\ ~last.ret
  /\ last.operation \in DOMAIN metrics_data
  /\ memory_samples # << >>
  /\ start_times # EmptyDict

MetricNames == {"ExecutionTime", "MemoryUsage", "PeakMemoryUsage", "ColdStart"}

\* C13: what send_cloudwatch_metrics hands to put_metric_data for a recorded
\* entry is four metrics, ExecutionTime, MemoryUsage, PeakMemoryUsage and
\* ColdStart, each with the dimensions Architecture, Operation and
\* FunctionName of the collector and the operation.
C13_FourMetricsThreeTags ==
  (last.call = "send_cloudwatch_metrics" /\ last.sent # << >>) =>
    /\ Len(last.sent) = 4
    /\ {last.sent[i].MetricName : i \in DOMAIN last.sent} = MetricNames
    /\ \A i \in DOMAIN last.sent :
         LET dims == last.sent[i].Dimensions
         IN {dims[j] : j \in DOMAIN dims} =
              { [Name |-> "Architecture", Value |-> architecture],
                [Name |-> "Operation", Value |-> last.operation],
                [Name |-> "FunctionName", Value |-> function_name] }

\* C14: of the invocations of lambda_handler in one process, the first sees
\* cold_start true and every later one sees it false, whether the earlier
\* ones answered 200, 400 or 500; what an invocation sees is what its scope
\* records and what its 200 response reports.
C14_ColdOnlyFirst ==
  last.call = "lambda_handler" =>
    /\ last.is_cold_start <=> last.earlier = << >>
    /\ ~_cold_start
    /\ last.status = 200 => last.ret.body.cold_start = last.is_cold_start
    /\ last.scope.ran =>
         metrics_data[last.scope.ctx.operation]["cold_start"] = last.is_cold_start

\* a third invocation answers 200 with cold_start false after a first that
\* was rejected and a second whose workload failed
C14_Witness ==
  /\ last.call = "lambda_handler"
  /\ last.earlier = << 400, 500 >>
  /\ last.status = 200
  /\ ~last.ret.body.cold_start

\* the group key of a trial result or of a group's statistics
KeyOf(r) == << r.architecture, r.operation, r.data_size >>

\* the results among `given` that have the key of `stat`
GroupOf(given, stat) ==
  LET same(r) == KeyOf(r) = KeyOf(stat) IN SelectSeq(given, same)

TimesOf(given, stat) ==
  LET group == GroupOf(given, stat)
  IN [i \in DOMAIN group |-> group[i].execution_time_ms]

\* C15: calculate_statistics groups by (architecture, operation, data_size):
\* every result has exactly one group, a group holds results of one
\* architecture and one data_size only, no group is empty, each group's
\* sample_count is the number of results of its key and the sample_counts
\* sum to the number of results.
C15_GroupsPartitionResults ==
  last.call = "calculate_statistics" =>
    LET groups == group_results(last.results, << >>)
        counts == [g \in DOMAIN last.ret |-> last.ret[g].sample_count]
    IN /\ \A i \in DOMAIN last.results :
            Cardinality({g \in DOMAIN last.ret :
                           KeyOf(last.ret[g]) = KeyOf(last.results[i])}) = 1
       /\ \A g \in DOMAIN groups : \A m, n \in DOMAIN groups[g].members :
            /\ groups[g].members[m].architecture = groups[g].members[n].architecture
            /\ groups[g].members[m].data_size = groups[g].members[n].data_size
       /\ \A g \in DOMAIN last.ret :
            /\ last.ret[g].sample_count >= 1
            /\ last.ret[g].sample_count = Len(GroupOf(last.results, last.ret[g]))
       /\ Sum(counts) = Len(last.results)

\* statistics of three results of one architecture and operation, two of one
\* size and one of another
C15_Witness ==
  /\ last.call = "calculate_statistics"
  /\ Len(last.results) = 3
  /\ Len(last.ret) = 2
  /\ \A i \in DOMAIN last.results :
       last.results[i].architecture = "arm64" /\ last.results[i].operation = "sort"
  /\ \E g \in DOMAIN last.ret : last.ret[g].sample_count = 2

\* m stands at index k, counted from 0, of the times sorted ascending
AtIndex(times, k, m) ==
  /\ m \in Range(times)
  /\ Cardinality({i \in DOMAIN times : times[i] < m}) <= k
  /\ Cardinality({i \in DOMAIN times : times[i] > m}) <= Len(times) - 1 - k

\* C16: a group's median_execution_time is the middle one of its times
\* sorted ascending for an odd count n, and the lower of the two middle ones,
\* at index n/2 - 1 counted from 0, for an even n.
C16_MedianLowerMiddle ==
  last.call = "calculate_statistics" =>
    \A g \in DOMAIN last.ret :
      LET times == TimesOf(last.results, last.ret[g])
          n == Len(times)
      IN AtIndex(times, IF n % 2 = 1 THEN (n - 1) \div 2 ELSE n \div 2 - 1,
                 last.ret[g].median_execution_time)

\* C16 as amended: the same, with the upper of the two middle ones, at index
\* n/2 counted from 0, for an even n.
C16_MedianUpperMiddle ==
  last.call = "calculate_statistics" =>
    \A g \in DOMAIN last.ret :
      LET times == TimesOf(last.results, last.ret[g])
          n == Len(times)
      IN AtIndex(times, IF n % 2 = 1 THEN (n - 1) \div 2 ELSE n \div 2,
                 last.ret[g].median_execution_time)

\* a group of the two times 120 and 100, in that order, has the median 120
C16_Witness ==
  /\ last.call = "calculate_statistics"
  /\ \E g \in DOMAIN last.ret :
       /\ TimesOf(last.results, last.ret[g]) = << 120, 100 >>
       /\ last.ret[g].median_execution_time = 120

\* C17: a group of one sample has the standard deviation 0.0 of its times,
\* in the statistics of calculate_statistics and in those of analyze_results.
C17_SingleSampleNoDeviation ==
  /\ last.call = "calculate_statistics" =>
       \A g \in DOMAIN last.ret :
         last.ret[g].sample_count = 1 => last.ret[g].std_dev_execution_time = 0
  /\ (last.call = "analyze_results" /\ "error" \notin DOMAIN last.ret) =>
       /\ Len(last.arm64_results) = 1 =>
            last.ret["arm64"].std_dev_ms = [sqrt |-> Frac(0, 1)]
       /\ Len(last.x86_results) = 1 =>
            last.ret["x86_64"].std_dev_ms = [sqrt |-> Frac(0, 1)]

\* C18: a group's mean_execution_time is the sum of its times divided by its
\* sample_count, and its cold_start_percentage is 100 times the number of its
\* cold results divided by its sample_count, between 0 and 100; the times 100
\* and 120 with one cold result give 110 and 50.
C18_MeanAndColdShare ==
  last.call = "calculate_statistics" =>
    \A g \in DOMAIN last.ret :
      LET stat == last.ret[g]
          group == GroupOf(last.results, stat)
          times == TimesOf(last.results, stat)
          cold == Cardinality({i \in DOMAIN group : group[i].cold_start})
          mean == stat.mean_execution_time
          share == stat.cold_start_percentage
      IN /\ mean.den > 0 /\ share.den > 0
         /\ mean.num * stat.sample_count = Sum(times) * mean.den
         /\ share.num * stat.sample_count = 100 * cold * share.den
         /\ 0 <= share.num /\ share.num <= 100 * share.den
         /\ (times = << 100, 120 >> /\ cold = 1) =>
              /\ mean = [num |-> 110, den |-> 1]
              /\ share = [num |-> 50, den |-> 1]

\* the arm64 group of the test: 100 ms warm and 120 ms cold
C18_Witness ==
  /\ last.call = "calculate_statistics"
  /\ \E g \in DOMAIN last.ret :
       /\ last.ret[g].architecture = "arm64"
       /\ TimesOf(last.results, last.ret[g]) = << 100, 120 >>
       /\ last.ret[g].mean_execution_time = [num |-> 110, den |-> 1]
       /\ last.ret[g].cold_start_percentage = [num |-> 50, den |-> 1]

\* the (operation, data_size) keys that have statistics of both architectures
KeysOnBothSides(given) ==
  { << given[i].operation, given[i].data_size >> : i \in
      { i \in DOMAIN given :
          /\ given[i].architecture = "arm64"
          /\ \E j \in DOMAIN given :
               /\ given[j].architecture = "x86_64"
               /\ given[j].operation = given[i].operation
               /\ given[j].data_size = given[i].data_size } }

\* the mean of the statistics of one architecture and key
MeanOf(given, arch, operation, data_size) ==
  LET i == CHOOSE i \in DOMAIN given :
             /\ given[i].architecture = arch
             /\ given[i].operation = operation
             /\ given[i].data_size = data_size
  IN given[i].mean_execution_time

\* a / b < c / d
Lower(a, c) == a.num * c.den < c.num * a.den

\* C19: for every key that has statistics of both architectures the winner
\* is ARM64 if and only if the arm64 mean is strictly lower than the x86_64
\* mean, and x86_64 otherwise, ties included; so it is in the comparisons of
\* compare_architectures and in the analysis of analyze_results.
C19_WinnerStrictlyLower ==
  /\ last.call = "compare_architectures" =>
       /\ last.exc = "none"
       /\ \A key \in KeysOnBothSides(last.stats) :
            LET name == comparison_key(key)
                arm == MeanOf(last.stats, "arm64", key[1], key[2])
                x86 == MeanOf(last.stats, "x86_64", key[1], key[2])
            IN /\ name \in DOMAIN last.ret
               /\ last.ret[name].winner = IF Lower(arm, x86) THEN "ARM64" ELSE "x86_64"
  /\ (last.call = "analyze_results" /\ "error" \notin DOMAIN last.ret) =>
       /\ "winner" \in DOMAIN last.ret
       /\ last.ret["winner"] =
            IF Lower(last.ret["arm64"].avg_time_ms, last.ret["x86_64"].avg_time_ms)
            THEN "ARM64" ELSE "x86_64"

\* C20: in every comparison of a key whose x86_64 mean is positive,
\* execution_time_diff_percent is ((arm64 mean - x86_64 mean) / x86_64 mean)
\* * 100, and it is negative if and only if the winner is ARM64; the means
\* 100 and 120 give -50/3, about -16.67.
C20_DiffPercent ==
  (last.call = "compare_architectures" /\ last.exc = "none") =>
    \A name \in DOMAIN last.ret :
      LET c == last.ret[name]
          arm == MeanOf(last.stats, "arm64", c.operation, c.data_size)
          x86 == MeanOf(last.stats, "x86_64", c.operation, c.data_size)
          d == c.execution_time_diff_percent
      IN x86.num > 0 =>
           /\ d.den > 0
           /\ d.num * (arm.den * x86.num)
                = 100 * (arm.num * x86.den - x86.num * arm.den) * d.den
           /\ d.num < 0 <=> c.winner = "ARM64"
           /\ (arm = [num |-> 100, den |-> 1] /\ x86 = [num |-> 120, den |-> 1]) =>
                /\ d = [num |-> -50, den |-> 3]
                /\ -1667 * d.den <= 100 * d.num
                /\ 100 * d.num <= -1666 * d.den

\* the comparison of the test: arm64 mean 100 against x86_64 mean 120
C20_Witness ==
  /\ last.call = "compare_architectures"
  /\ "sort_100" \in DOMAIN last.ret
  /\ last.ret["sort_100"].winner = "ARM64"
  /\ last.ret["sort_100"].execution_time_diff_percent = [num |-> -50, den |-> 3]
  /\ MeanOf(last.stats, "x86_64", "sort", 100) = [num |-> 120, den |-> 1]

\* the keys that have an arm64 group and a group of any other architecture
KeysWithArm64AndOther(given) ==
  { << given[i].operation, given[i].data_size >> : i \in
      { i \in DOMAIN given :
          /\ given[i].architecture = "arm64"
          /\ \E j \in DOMAIN given :
               /\ given[j].architecture # "arm64"
               /\ given[j].operation = given[i].operation
               /\ given[j].data_size = given[i].data_size } }

\* C21 as stated: statistics of every architecture other than arm64 are on
\* the second side, so whenever compare_architectures returns, each key that
\* has an arm64 group and a group of any non-arm64 architecture has a
\* comparison.
C21_AnyOtherArchitectureCompared ==
  (last.call = "compare_architectures" /\ last.exc = "none") =>
    \A key \in KeysWithArm64AndOther(last.stats) :
      comparison_key(key) \in DOMAIN last.ret

\* C21 amended: the first side holds the arm64 statistics and the second
\* side only the x86_64 statistics; statistics of any other architecture are
\* on neither side, so every comparison returned is that of a key which has
\* an arm64 group and an x86_64 group, and a key whose only non-arm64 groups
\* are of other architectures has none.
C21_OnlyX86OnSecondSide ==
  last.call = "compare_architectures" =>
    /\ \A name \in DOMAIN last.ret :
         \E key \in KeysOnBothSides(last.stats) :
           /\ name = comparison_key(key)
           /\ last.ret[name].operation = key[1]
           /\ last.ret[name].data_size = key[2]
    /\ \A key \in KeysWithArm64AndOther(last.stats) \ KeysOnBothSides(last.stats) :
         comparison_key(key) \notin DOMAIN last.ret

\* an arm64 group and an unknown-architecture group of the same key were
\* compared and gave no comparison
C21_Witness ==
  /\ last.call = "compare_architectures"
  /\ last.exc = "none"
  /\ << "sort", 200 >> \in KeysWithArm64AndOther(last.stats)
  /\ \E i \in DOMAIN last.stats : last.stats[i].architecture = "unknown"
  /\ "sort_200" \notin DOMAIN last.ret

\* C22: compare_architectures raises nothing and returns exactly one
\* comparison, named "{operation}_{data_size}", for each key that has
\* statistics on both sides and none for a key present on one side only, so
\* there are as many comparisons as keys present on both sides.
C22_OneComparisonPerPairedKey ==
  last.call = "compare_architectures" =>
    /\ last.exc = "none"
    /\ DOMAIN last.ret = {comparison_key(key) : key \in KeysOnBothSides(last.stats)}
    /\ Cardinality(DOMAIN last.ret) = Cardinality(KeysOnBothSides(last.stats))
    /\ \A key \in KeysOnBothSides(last.stats) :
         /\ last.ret[comparison_key(key)].operation = key[1]
         /\ last.ret[comparison_key(key)].data_size = key[2]

\* the events of the comparison under way, in the order they happened
Started(k) == tester.trace[k].e = "start"

\* the trial started at position k of the trace has completed by position m
EndedBy(k, m) ==
  \E j \in k + 1 .. m :
    /\ tester.trace[j].e = "end"
    /\ tester.trace[j].arch = tester.trace[k].arch
    /\ tester.trace[j].i = tester.trace[k].i

\* position k - 1 is a pause of that many seconds and position k - 2 the
\* completion of the trial of arch in iteration i
AfterPause(k, seconds, arch, i) ==
  /\ k > 2
  /\ tester.trace[k - 1] = [e |-> "sleep", seconds |-> seconds]
  /\ tester.trace[k - 2] = [e |-> "end", arch |-> arch, i |-> i]

\* C23: in run_comparison_test the trials run one after the other as pairs:
\* a trial starts only when every trial started before it has completed; the
\* x86_64 trial of an iteration starts right after a pause of 1 s that
\* follows the completion of the arm64 trial of that iteration; the arm64
\* trial of iteration i + 1 starts right after a pause of 2 s that follows
\* the completion of the x86_64 trial of iteration i; and when the loop is
\* over N pairs have run.
C23_SequentialPairs ==
  /\ \A k \in DOMAIN tester.trace :
       Started(k) =>
         /\ \A j \in 1 .. k - 1 : Started(j) => EndedBy(j, k - 1)
         /\ tester.trace[k].arch = "x86_64" =>
              AfterPause(k, 1, "arm64", tester.trace[k].i)
         /\ (tester.trace[k].arch = "arm64" /\ tester.trace[k].i > 0) =>
              AfterPause(k, 2, "x86_64", tester.trace[k].i - 1)
         /\ (tester.trace[k].arch = "arm64" /\ tester.trace[k].i = 0) => k = 1
  /\ (tester.mode = "comparison" /\ tester.pc \in {"analyze", "done"}) =>
       \A i \in 0 .. tester.iterations - 1, arch \in {"arm64", "x86_64"} :
         \E k \in DOMAIN tester.trace :
           /\ tester.trace[k] = [e |-> "start", arch |-> arch, i |-> i]
           /\ EndedBy(k, Len(tester.trace))

\* a comparison of two iterations is over, the arm64 trial of the first
\* iteration having failed
C23_Witness ==
  /\ tester.mode = "comparison"
  /\ tester.pc = "done"
  /\ tester.iterations = 2
  /\ Len(tester.arm64_results) = 1
  /\ Len(tester.x86_results) = 2
  /\ tester.trace[7] = [e |-> "start", arch |-> "arm64", i |-> 1]
  /\ tester.trace[6] = [e |-> "sleep", seconds |-> 2]

\* the post gave a 200 response with a JSON body
Answered(response) ==
  /\ response.kind = "response"
  /\ response.status_code = 200
  /\ response.json

\* the trials started so far in the comparison under way
Attempts == Cardinality({k \in DOMAIN tester.trace : Started(k)})

\* C24: for a trial that times out, raises or gets a status other than 200,
\* run_single_test raises nothing and returns a result with success false
\* and an error message; run_comparison_test adds no such result to the list
\* of either architecture and goes on, so that when its loop is over 2 * N
\* trials have been attempted.
C24_FailedTrialsReported ==
  /\ tester.pc # "raised"
  /\ last.call = "run_single_test" =>
       /\ last.exc = "none"
       /\ ~Answered(last.response) =>
            /\ last.ret.success = FALSE
            /\ "error" \in DOMAIN last.ret
            /\ tester.arm64_results = last.arm64_before
            /\ tester.x86_results = last.x86_before
       /\ Answered(last.response) =>
            /\ last.ret.success
            /\ Len(tester.arm64_results) + Len(tester.x86_results)
                 = Len(last.arm64_before) + Len(last.x86_before) + 1
  /\ tester.pc \in {"post", "wait", "sleep"} => Attempts <= 2 * tester.iterations
  /\ tester.pc = "analyze" => Attempts = 2 * tester.iterations
  /\ (tester.pc = "done" /\ tester.mode = "comparison") =>
       Attempts = 2 * tester.iterations

\* the last of the four trials of two iterations timed out, both arm64
\* trials having failed before it, and the loop is over
C24_Witness ==
  /\ last.call = "run_single_test"
  /\ last.response = Timeout
  /\ last.arch = "x86_64"
  /\ last.i = 1
  /\ last.ret = [success |-> FALSE, error |-> "Timeout"]
  /\ tester.iterations = 2
  /\ tester.pc = "analyze"
  /\ tester.arm64_results = << >>
  /\ Len(tester.x86_results) = 1
  /\ Attempts = 4

\* an analysis that carries no error
Computed(analysis) == "error" \notin DOMAIN analysis

\* C25: analyze_results raises nothing and returns the condition
\* "Insufficient data for comparison" if and only if one of the two lists of
\* successful trials is empty; run_comprehensive_test goes through all its
\* test cases whatever their analyses and returns the analyses that carry
\* no error, in the order of the test cases.
C25_PartialResults ==
  /\ last.call = "analyze_results" =>
       /\ last.exc = "none"
       /\ ~Computed(last.ret) <=>
            (last.arm64_results = << >> \/ last.x86_results = << >>)
       /\ ~Computed(last.ret) =>
            last.ret = [error |-> "Insufficient data for comparison"]
       /\ Computed(last.ret) =>
            /\ last.ret.operation = last.operation
            /\ last.ret.test_count = Len(last.arm64_results)
  /\ tester.mode = "comprehensive" =>
       /\ tester.pc # "raised"
       /\ tester.results = SelectSeq(tester.analyses, Computed)
       /\ tester.pc # "done" => Len(tester.analyses) = tester.case - 1
       /\ tester.pc = "done" =>
            /\ Len(tester.analyses) = Len(tester.cases)
            /\ tester.ret = SelectSeq(tester.analyses, Computed)
            /\ \A k \in DOMAIN tester.analyses :
                 Computed(tester.analyses[k]) =>
                   tester.analyses[k].operation = tester.cases[k].operation

\* a batch in which the second and the third test case had a side without a
\* successful trial returned the analyses of the first and the fourth
C25_Witness ==
  /\ tester.mode = "comprehensive"
  /\ tester.pc = "done"
  /\ Len(tester.ret) = 2
  /\ tester.ret[1].operation = "sort_intensive"
  /\ tester.ret[2].operation = "memory_intensive"
  /\ ~Computed(tester.analyses[2])
  /\ ~Computed(tester.analyses[3])

\* the parameters a request carries: those of a direct invocation, or those
\* of the JSON object in the body of an API Gateway request and of its query
\* string; a body that is no JSON object carries none
RequestParameters(event) ==
  IF "httpMethod" \in DOMAIN event /\ "body" \in DOMAIN event
  THEN IF event["body"].json /\ event["body"].mapping
       THEN Update(Get(event, "queryStringParameters", EmptyDict), event["body"].doc)
       ELSE EmptyDict
  ELSE event

\* the parameter given is an integer between lo and hi
IntegerWithin(params, name, lo, hi) ==
  name \in DOMAIN params =>
    /\ params[name].type = "int"
    /\ lo <= params[name].v
    /\ params[name].v <= hi

\* a request the handler has to reject
BadRequest(params) ==
  \/ "operation" \notin DOMAIN params
  \/ params["operation"] \notin {"sort_intensive", "mathematical_computation",
                                 "string_processing", "memory_intensive"}
  \/ params["operation"] = "sort_intensive"
       /\ ~IntegerWithin(params, "data_size", 1, 100000)
  \/ params["operation"] = "mathematical_computation"
       /\ ~IntegerWithin(params, "complexity", 1, 10000)
  \/ params["operation"] = "string_processing"
       /\ ~IntegerWithin(params, "text_size", 1, 100000)
  \/ params["operation"] = "memory_intensive"
       /\ ~IntegerWithin(params, "memory_size_mb", 1, 100)
  \/ ~IntegerWithin(params, "iterations", 1, 10)

\* C26: for a request whose operation is missing or unknown, whose size for
\* its operation is no integer in range or whose iterations is no integer in
\* 1..10, lambda_handler returns a 400 response without entering the
\* MetricsContext, so without the workload, a timer or a metrics entry.
C26_BadRequestRejected ==
  (last.call = "lambda_handler" /\ BadRequest(RequestParameters(last.event))) =>
    /\ last.status = 400
    /\ last.exc = "none"
    /\ ~last.scope.ran
    /\ \A k \in DOMAIN last.steps :
         last.steps[k] \notin {"__enter__", "process_workload", "__exit__"}

\* the place of a step among the steps of the last invocation, 0 if absent
StepAt(step) ==
  IF \E k \in DOMAIN last.steps : last.steps[k] = step
  THEN CHOOSE k \in DOMAIN last.steps : last.steps[k] = step
  ELSE 0

\* C27: when process_workload raises, lambda_handler raises nothing and
\* returns an error response, 400 for a ValueError and 500 for any other
\* fault, after __exit__ of the MetricsContext has stopped the timer and
\* recorded the operation: the collector of the module then holds an entry
\* of that operation with the time of that stop and the cold-start flag of
\* that invocation, and no pending start.
C27_WorkloadFaultAnswered ==
  (last.call = "lambda_handler" /\ last.scope.ran /\ last.work # "return") =>
    LET operation == last.scope.ctx.operation
    IN /\ last.exc = "none"
       /\ last.status = IF last.work = "ValueError" THEN 400 ELSE 500
       /\ ~last.ret.body.success
       /\ StepAt("process_workload") > 0
       /\ StepAt("__exit__") > StepAt("process_workload")
       /\ StepAt("send_cloudwatch_metrics") = 0
       /\ last.scope.calls = << "stop_timer", "record_operation_metrics" >>
       /\ _metrics_collector # "None"
       /\ operation \in DOMAIN metrics_data
       /\ metrics_data[operation]["execution_time_ms"] = last.scope.stop
       /\ metrics_data[operation]["cold_start"] = last.is_cold_start
       /\ operation \notin DOMAIN start_times

\* a workload that ran for a second and raised RuntimeError in the first
\* invocation of the process: 500, and an entry of 1000 ms
C27_Witness ==
  /\ last.call = "lambda_handler"
  /\ last.work = "RuntimeError"
  /\ last.status = 500
  /\ last.is_cold_start
  /\ "sort_intensive" \in DOMAIN metrics_data
  /\ metrics_data["sort_intensive"]["execution_time_ms"] = 1000
  /\ metrics_data["sort_intensive"]["cold_start"]

\* C28: a capture_memory_usage whose introspection fails raises nothing,
\* returns the five fields of a reading all 0.0 and leaves the samples as
\* they were; a record_operation_metrics made during such a failure raises
\* nothing either, adds no sample and stores an entry of the operation, with
\* a memory_used_mb of 0.0.
C28_FailedCaptureReadsZero ==
  [][ /\ (last'.call = "capture_memory_usage" /\ ~last'.ok) =>
           /\ last'.exc = "none"
           /\ DOMAIN last'.ret = {"memory_used_mb", "memory_percent",
                                   "system_memory_total_mb",
                                   "system_memory_available_mb",
                                   "system_memory_percent"}
           /\ \A field \in DOMAIN last'.ret : last'.ret[field] = 0
           /\ memory_samples' = memory_samples
           /\ metrics_data' = metrics_data
      /\ (last'.call = "record_operation_metrics" /\ ~last'.ok) =>
           /\ last'.exc = "none"
           /\ memory_samples' = memory_samples
           /\ last'.operation \in DOMAIN metrics_data'
           /\ metrics_data'[last'.operation]["operation"] = last'.operation
           /\ metrics_data'[last'.operation]["memory_used_mb"] = 0
           /\ metrics_data'[last'.operation]["memory_percent"] = 0
           /\ last'.ret["memory_used_mb"] = 0
    ]_vars

\* an operation recorded while the introspection failed, after a capture
\* that had read 100 MB
C28_Witness ==
  /\ last.call = "record_operation_metrics"
  /\ ~last.ok
  /\ memory_samples = << 100 >>
  /\ last.operation \in DOMAIN metrics_data
  /\ metrics_data[last.operation]["memory_used_mb"] = 0
  /\ metrics_data[last.operation]["peak_memory_mb"] = 100

\* the peak of an entry is the maximum of the samples taken so far (0.0 if
\* there is none) and at least the entry's memory_used_mb
PeakCovers(entry, samples) ==
  /\ samples = << >> => entry["peak_memory_mb"] = 0
  /\ samples # << >> =>
       /\ \E i \in DOMAIN samples : entry["peak_memory_mb"] = samples[i]
       /\ \A i \in DOMAIN samples : samples[i] <= entry["peak_memory_mb"]
  /\ entry["peak_memory_mb"] >= entry["memory_used_mb"]

\* the samples are kept, in order, by every call but reset_metrics
SamplesKept ==
  last'.call # "reset_metrics" =>
    /\ Len(memory_samples) <= Len(memory_samples')
    /\ SubSeq(memory_samples', 1, Len(memory_samples)) = memory_samples

\* the additional metrics of a record call name a memory field of the entry
OverridesMemory(call) ==
  \/ "peak_memory_mb" \in DOMAIN call.args.additional_metrics
  \/ "memory_used_mb" \in DOMAIN call.args.additional_metrics

\* C29 as stated: in every entry record_operation_metrics returns,
\* peak_memory_mb is the maximum of all the samples taken since the collector
\* was created or last reset, that of the record call included, hence at
\* least memory_used_mb, and a record that follows another without a reset
\* between them returns no lower peak.
C29_PeakOfAllSamples ==
  [][ /\ SamplesKept
      /\ last'.call = "record_operation_metrics" =>
           /\ PeakCovers(last'.ret, memory_samples')
           /\ last.call = "record_operation_metrics" =>
                last'.ret["peak_memory_mb"] >= last.ret["peak_memory_mb"]
    ]_vars

\* C29 amended: the same of every entry returned by a record call whose
\* additional_metrics carries neither peak_memory_mb nor memory_used_mb.
C29_PeakOfAllSamplesUnlessPassed ==
  [][ /\ SamplesKept
      /\ (last'.call = "record_operation_metrics" /\ ~OverridesMemory(last')) =>
           /\ PeakCovers(last'.ret, memory_samples')
           /\ (last.call = "record_operation_metrics" /\ ~OverridesMemory(last)) =>
                last'.ret["peak_memory_mb"] >= last.ret["peak_memory_mb"]
    ]_vars

\* a record that read 50 MB after a record that had read 100 MB returns a
\* peak of 100 MB
C29_Witness ==
  /\ last.call = "record_operation_metrics"
  /\ ~OverridesMemory(last)
  /\ memory_samples = << 100, 50 >>
  /\ last.ret["memory_used_mb"] = 50
  /\ last.ret["peak_memory_mb"] = 100

\* the operation whose scope the last call closed: that of the scope an
\* invocation of the handler ran, or that of an __exit__
ClosedScope(call) ==
  IF call.call = "lambda_handler" /\ call.scope.ran
  THEN {call.scope.ctx.operation}
  ELSE IF call.call = "__exit__" THEN {call.operation}
  ELSE {}

\* C30: an invocation of lambda_handler, whatever it answers, and the exit
\* of a MetricsContext leave no pending start behind: start_times gains no
\* key, the operation of the scope that was closed has no start in it, and a
\* stop_timer of that operation made next returns 0.0 and changes nothing.
C30_NoTimerLeak ==
  [][ /\ last'.call \in {"lambda_handler", "__exit__"} =>
           /\ DOMAIN start_times' \subseteq DOMAIN start_times
           /\ \A operation \in ClosedScope(last') :
                /\ operation \notin DOMAIN start_times'
                /\ stop_timer([ metrics_data |-> metrics_data',
                                start_times |-> start_times',
                                memory_samples |-> memory_samples' ],
                              operation, clock').ret = 0
      /\ last'.call = "lambda_handler" =>
           /\ last'.status \in {200, 400, 500}
           /\ last'.scope.ran => last'.scope.pending
           /\ ~last'.scope.ran => start_times' = start_times
      /\ (last'.call = "stop_timer" /\ last'.operation \in ClosedScope(last)) =>
           /\ last'.ret = 0
           /\ last'.exc = "none"
           /\ metrics_data' = metrics_data
    ]_vars

\* stop_timer returned 0.0 right after an invocation whose workload raised
\* had answered 500
C30_Witness ==
  /\ last.call = "stop_timer"
  /\ last.operation = "sort_intensive"
  /\ last.ret = 0
  /\ _metrics_collector # "None"
  /\ "sort_intensive" \in DOMAIN metrics_data
  /\ metrics_data["sort_intensive"]["execution_time_ms"] = 1000
  /\ ~_cold_start
  /\ start_times = EmptyDict

====
